---- MODULE Spec2Model ----
(***************************************************************************)
(* Model of the semantic comparison engine of the SAP documentation        *)
(* monitor (comparator/compare_content.py).                                *)
(*                                                                         *)
(* A text is a sequence of lines (the result of str.splitlines()); a line  *)
(* is a sequence of characters.  A character is a one-element string, with *)
(* four conventions that keep  the alphabet finite:                        *)
(*   - non-ASCII glyphs are written by their code point ("U2022" is the    *)
(*     bullet, "U2192" the rightwards arrow, ...);                         *)
(*   - "TAB" is the horizontal tab;                                        *)
(*   - a word is one character ("Choose", "save", ...).  Words are never   *)
(*     adjacent to a word or a digit, so prefix tests and the code-point   *)
(*     comparison of strings agree with the same tests made word by word;  *)
(*   - "9x4301" is a run of 4301 digits 9.                                 *)
(***************************************************************************)
EXTENDS Integers, Sequences, FiniteSets, TLC

VARIABLES
    old_text,   \* compare's first argument
    new_text,   \* compare's second argument
    result,     \* <<r>> when the last call returned the dict r, else <<>>
    raised,     \* <<e>> when the last call raised the exception e, else <<>>
    previous,   \* the value of result before the last call
    pc,         \* concurrent calls: where each worker's call of compare is
    args,       \* concurrent calls: the arguments of each worker's call
    frames,     \* concurrent calls: the local variables of the calls
    returns,    \* concurrent calls: <<r>> once a worker's call returned r
    module_tables,  \* the module-level tables of compare_content.py
    phase,          \* monitoring run: "idle", "fetch", "compare", "compared"
    page_list,      \* monitoring run: the page names, in the order of the list
    page_index,     \* monitoring run: the entry of page_list the loop is at
    fetch_results,  \* monitoring run: how the fetch of each entry ended
    current_content,    \* monitoring run: page name -> <<text>>, <<>> if absent
    previous_snapshots, \* monitoring run: normalized name -> <<text>> or <<>>
    all_changes,    \* monitoring run: the change dicts collected so far
    compare_calls,  \* monitoring run: the entries compare was called for
    snapshot_files, \* the snapshot directory: file name -> <<text>>, <<>> if absent
    run_number,     \* the number of the monitoring run, from 1
    reports,        \* the all_changes of the runs that have ended
    key_name,       \* snapshot key: the page name given to sanitize_filename
    key_number,     \* snapshot key: the page number given to sanitize_filename
    key_file,       \* snapshot key: <<file name>> once the snapshot is named
    key_loaded,     \* snapshot key: <<key>> once the file name is read back
    url,            \* fetch_page: the kind of URL it is called with
    max_retries,    \* fetch_page: its second argument
    fetch_pc,       \* fetch_page: where the call is; "raised" for RuntimeError
    attempt,        \* fetch_page: the loop variable of the retry loop
    attempts,       \* fetch_page: how each Selenium attempt ended, in order
    sleeps,         \* fetch_page: the back-off waits it made, in seconds
    http,           \* fetch_page: <<response>> once requests.get returned
    fetched         \* fetch_page: <<html>> once the call returned html

callVars == <<old_text, new_text, result, raised, previous>>

workerVars == <<pc, args, frames, returns, module_tables>>

monitorVars == <<phase, page_list, page_index, fetch_results, current_content,
                 previous_snapshots, all_changes, compare_calls>>

storeVars == <<snapshot_files, run_number, reports>>

keyVars == <<key_name, key_number, key_file, key_loaded>>

fetchVars == <<url, max_retries, fetch_pc, attempt, attempts, sleeps, http,
               fetched>>

vars == <<old_text, new_text, result, raised, previous, pc, args, frames,
          returns, module_tables, phase, page_list, page_index, fetch_results,
          current_content, previous_snapshots, all_changes, compare_calls,
          snapshot_files, run_number, reports, key_name, key_number, key_file,
          key_loaded, url, max_retries, fetch_pc, attempt, attempts, sleeps,
          http, fetched>>

(***************************************************************************)
(* Character classes of the regular expressions.                           *)
(***************************************************************************)
\* \s
Whitespace == {" ", "TAB"}

\* the character class of _BULLET_RE
BULLET_RE_Glyphs ==
    {"U2022", "U00B7", "-", "*", "U2023", "U25E6", "U2043", "U2219"}

\* \d, one digit; and the long run of digits, which \d+ matches as a whole
Digits == {"0", "1", "2", "3", "4", "5", "6", "7", "8", "9"}

LongDigitRun == "9x4301"

\* [\.\)] of _STEP_NUMBER_RE
StepClosers == {".", ")"}

\* the character class of _SEPARATOR_RE
SEPARATOR_RE_Chars == {"-", "=", "*", "_", "U2500"}

\* the character class of _TABLE_SEP_RE
TABLE_SEP_RE_Chars == {"-", "U2500"}

\* the character class of _ARROW_RE
ARROW_RE_Glyphs == {"U2192", "U25BA", "U25B6", "U279C", "U27A4", "U00BB"}

\* the argument of str.lstrip in _classify_line
LstripChars == {"U2022", "U00B7", "-", "*", " "}

(***************************************************************************)
(* str.lower(), character by character.                                    *)
(***************************************************************************)
UpperWords ==
    [Choose |-> "choose", Select |-> "select", Save |-> "save",
     Note |-> "note", You |-> "you", Must |-> "must", Need |-> "need",
     Prerequisites |-> "prerequisites", Procedure |-> "procedure",
     Steps |-> "steps", In |-> "in", A |-> "a", B |-> "b", C |-> "c",
     Overview |-> "overview", Setup |-> "setup"]

LowerChar(c) == IF c \in DOMAIN UpperWords THEN UpperWords[c] ELSE c

Range(s) == {s[i] : i \in 1..Len(s)}

Lower(s) == [i \in 1..Len(s) |-> LowerChar(s[i])]

(***************************************************************************)
(* Scanning helpers: the index of the first character at or after i that   *)
(* is not in S (Len(s) + 1 when there is none), and its mirror image.      *)
(***************************************************************************)
SkipWhile(s, i, S) ==
    CHOOSE j \in i..(Len(s) + 1) :
        /\ \A k \in i..(j - 1) : s[k] \in S
        /\ j = Len(s) + 1 \/ s[j] \notin S

SkipBack(s, i, S) ==
    CHOOSE j \in 0..i :
        /\ \A k \in (j + 1)..i : s[k] \in S
        /\ j = 0 \/ s[j] \notin S

\* str.strip()
Strip(s) ==
    LET a == SkipWhile(s, 1, Whitespace)
        b == SkipBack(s, Len(s), Whitespace)
    IN  IF a > Len(s) THEN <<>> ELSE SubSeq(s, a, b)

\* str.lstrip(chars)
LStrip(s, chars) == SubSeq(s, SkipWhile(s, 1, chars), Len(s))

\* str.rstrip(chars)
RStrip(s, chars) == SubSeq(s, 1, SkipBack(s, Len(s), chars))

\* str.startswith(p)
StartsWith(s, p) == Len(s) >= Len(p) /\ SubSeq(s, 1, Len(p)) = p

(***************************************************************************)
(* The regular expressions.                                                *)
(***************************************************************************)
\* what \d+ consumes
DigitRunChars == Digits \cup {LongDigitRun}

\* _BULLET_RE.sub('', s):  ^[\s]*[bullets]\s*
BULLET_RE_sub(s) ==
    LET i == SkipWhile(s, 1, Whitespace)
    IN  IF i <= Len(s) /\ s[i] \in BULLET_RE_Glyphs
        THEN SubSeq(s, SkipWhile(s, i + 1, Whitespace), Len(s))
        ELSE s

\* _STEP_NUMBER_RE.match(s):  ^[\s]*(\d+)[\.\)]\s*  ; the captured group,
\* or <<>> when the line does not match
STEP_NUMBER_RE_match(s) ==
    LET i == SkipWhile(s, 1, Whitespace)
        j == SkipWhile(s, i, DigitRunChars)
    IN  IF j > i /\ j <= Len(s) /\ s[j] \in StepClosers
        THEN SubSeq(s, i, j - 1)
        ELSE <<>>

\* _STEP_NUMBER_RE.sub('', s)
STEP_NUMBER_RE_sub(s) ==
    LET i == SkipWhile(s, 1, Whitespace)
        j == SkipWhile(s, i, DigitRunChars)
    IN  IF j > i /\ j <= Len(s) /\ s[j] \in StepClosers
        THEN SubSeq(s, SkipWhile(s, j + 1, Whitespace), Len(s))
        ELSE s

\* _ARROW_RE.sub(' > ', s):  \s*[arrows]\s*  , every match, left to right
RECURSIVE ArrowSubFrom(_, _)
ArrowSubFrom(s, i) ==
    IF i > Len(s) THEN <<>>
    ELSE LET j == SkipWhile(s, i, Whitespace)
         IN  IF j <= Len(s) /\ s[j] \in ARROW_RE_Glyphs
             THEN <<" ", ">", " ">>
                    \o ArrowSubFrom(s, SkipWhile(s, j + 1, Whitespace))
             ELSE <<s[i]>> \o ArrowSubFrom(s, i + 1)

ARROW_RE_sub(s) == ArrowSubFrom(s, 1)

\* re.sub(r'\s+', ' ', s)
RECURSIVE CollapseFrom(_, _)
CollapseFrom(s, i) ==
    IF i > Len(s) THEN <<>>
    ELSE IF s[i] \in Whitespace
         THEN <<" ">> \o CollapseFrom(s, SkipWhile(s, i, Whitespace))
         ELSE <<s[i]>> \o CollapseFrom(s, i + 1)

CollapseWhitespace(s) == CollapseFrom(s, 1)

(***************************************************************************)
(* Normalization helpers.                                                  *)
(***************************************************************************)
\* a slip of NormalizeLine: the case of the line is kept
NormalizeLineKeepCase(line) ==
    IF Strip(line) = <<>> THEN <<>>
    ELSE Strip(CollapseWhitespace(ARROW_RE_sub(
             STEP_NUMBER_RE_sub(BULLET_RE_sub(Strip(line))))))

\* _normalize_line(line)
NormalizeLine(line) ==
    IF Strip(line) = <<>> THEN <<>>
    ELSE Lower(Strip(CollapseWhitespace(ARROW_RE_sub(
             STEP_NUMBER_RE_sub(BULLET_RE_sub(Strip(line)))))))

\* _SEPARATOR_RE.match(s):  ^[\s]*[-=*_U2500]{3,}\s*$
SEPARATOR_RE_match(s) ==
    LET i == SkipWhile(s, 1, Whitespace)
        j == SkipWhile(s, i, SEPARATOR_RE_Chars)
    IN  j - i >= 3 /\ SkipWhile(s, j, Whitespace) = Len(s) + 1

\* the tail (\s{2,}[-U2500]+)* \s*$ of _TABLE_SEP_RE from index i on; n counts
\* the groups matched so far
RECURSIVE TableTail(_, _, _)
TableTail(s, i, n) ==
    LET j == SkipWhile(s, i, Whitespace)
        k == SkipWhile(s, j, TABLE_SEP_RE_Chars)
    IN  IF j = Len(s) + 1 THEN n >= 1
        ELSE IF j - i >= 2 /\ k > j THEN TableTail(s, k, n + 1)
        ELSE FALSE

\* _TABLE_SEP_RE.match(s):  ^[\s]*[-U2500]+(\s{2,}[-U2500]+)+\s*$
TABLE_SEP_RE_match(s) ==
    LET i == SkipWhile(s, 1, Whitespace)
        j == SkipWhile(s, i, TABLE_SEP_RE_Chars)
    IN  j > i /\ TableTail(s, j, 0)

\* _is_noise(line)
IsNoise(line) ==
    LET stripped == Strip(line)
    IN  \/ stripped = <<>>
        \/ SEPARATOR_RE_match(stripped)
        \/ TABLE_SEP_RE_match(stripped)


(***************************************************************************)
(* Semantic line classification.                                           *)
(***************************************************************************)
ACTION_VERBS ==
    {"choose", "select", "click", "enter", "navigate", "open", "upload",
     "download", "save", "add", "remove", "delete", "create", "configure",
     "check", "verify", "confirm", "submit", "type", "drag", "drop",
     "browse", "expand", "collapse", "go", "log", "sign", "press",
     "enable", "disable", "set", "change", "update", "assign", "map",
     "register", "subscribe", "search", "copy", "paste", "refresh"}

SECTION_KEYWORDS ==
    {<<"prerequisites">>, <<"prerequisite">>, <<"procedure">>, <<"results">>,
     <<"result">>, <<"context">>, <<"steps">>, <<"next", " ", "steps">>,
     <<"related", " ", "information">>}

\* the prefixes of the prerequisite rule of _classify_line
PrerequisitePrefixes ==
    {<<"you've">>, <<"you're">>, <<"you", " ", "need">>,
     <<"you", " ", "must">>, <<"you", " ", "have">>,
     <<"you", " ", "should">>}

\* norm.split()[0] if norm.split() else '' : the characters before the first
\* whitespace of a normalized (stripped, whitespace-collapsed) line
FirstWord(norm) ==
    SubSeq(norm, 1, SkipWhile(norm, 1, {c \in Range(norm) : c \notin Whitespace}) - 1)

\* _classify_line(line), rule 5 taking its own view of the raw line
ClassifyLine(line) ==
    LET stripped == Strip(line)
        norm == NormalizeLine(stripped)
        clean == Strip(RStrip(norm, {":"}))
        first_word == FirstWord(norm)
        raw == Lower(LStrip(stripped, LstripChars))
    IN  IF stripped = <<>> \/ IsNoise(stripped) THEN "noise"
        ELSE IF norm = <<>> THEN "noise"
        ELSE IF clean \in SECTION_KEYWORDS THEN "section_header"
        ELSE IF StartsWith(norm, <<"steps", " ", "in">>)
                \/ StartsWith(norm, <<"steps", " ", "for">>)
             THEN "section_header"
        ELSE IF Len(first_word) = 1 /\ first_word[1] \in ACTION_VERBS
             THEN "instruction"
        ELSE IF \E p \in PrerequisitePrefixes : StartsWith(raw, p)
             THEN "prerequisite"
        ELSE IF StartsWith(norm, <<"note", ":">>)
                \/ StartsWith(norm, <<"note", " ">>)
                \/ norm = <<"note">>
             THEN "note"
        ELSE "content"

_SEVERITY_MAP ==
    [instruction |-> "HIGH", section_header |-> "HIGH",
     prerequisite |-> "HIGH", note |-> "MEDIUM", content |-> "MEDIUM",
     noise |-> "LOW"]

\* a slip of SeverityFor: the table is not consulted
SeverityForDefault(category) == "MEDIUM"

\* _severity_for(category)
SeverityFor(category) ==
    IF category \in DOMAIN _SEVERITY_MAP THEN _SEVERITY_MAP[category]
    ELSE "MEDIUM"

(***************************************************************************)
(* int(): the value of a run of digits.  CPython refuses a run of more     *)
(* than sys.int_max_str_digits digits with ValueError.                     *)
(***************************************************************************)
INT_MAX_STR_DIGITS == 4300

DigitValue(c) == CHOOSE v \in 0..9 : ToString(v) = c

RECURSIVE DigitCount(_)
DigitCount(run) ==
    IF run = <<>> THEN 0
    ELSE (IF Head(run) = LongDigitRun THEN 4301 ELSE 1) + DigitCount(Tail(run))

IntRaises(run) == DigitCount(run) > INT_MAX_STR_DIGITS

RECURSIVE IntAcc(_, _)
IntAcc(run, acc) ==
    IF run = <<>> THEN acc
    ELSE IntAcc(Tail(run), 10 * acc + DigitValue(Head(run)))

IntOf(run) == IntAcc(run, 0)

(***************************************************************************)
(* Structural validation.                                                  *)
(***************************************************************************)
\* the f-string of _detect_numbering_gaps
GapMessage(missing, prev_num, num) ==
    <<"Step ", ToString(missing), " is missing (numbering jumps from ",
      ToString(prev_num), " to ", ToString(num), ")">>

\* a slip of GapWarning: the gap is rated LOW, as noise is
GapWarningLow(missing, prev_num, num) ==
    [type |-> "NUMBERING_GAP", severity |-> "LOW",
     message |-> GapMessage(missing, prev_num, num)]

GapWarning(missing, prev_num, num) ==
    [type |-> "NUMBERING_GAP", severity |-> "HIGH",
     message |-> GapMessage(missing, prev_num, num)]

\* a slip of GapStep: prev_num is updated only where a gap is reported
GapStepStalePrev(st, line) ==
    LET m == STEP_NUMBER_RE_match(Strip(line))
        num == IntOf(m)
        prev == st.prev_num
    IN  IF m = <<>> THEN st
        ELSE IF num = 1 THEN [st EXCEPT !.prev_num = <<1>>]
        ELSE IF prev # <<>> /\ num > prev[1] + 1
        THEN [prev_num |-> <<num>>,
              warnings |-> st.warnings \o
                  [k \in 1..(num - prev[1] - 1) |->
                      GapWarning(prev[1] + k, prev[1], num)]]
        ELSE st

\* One iteration of the loop of _detect_numbering_gaps on a line: st is
\* [prev_num, warnings], prev_num being <<>> for None and <<n>> for n.
GapStep(st, line) ==
    LET m == STEP_NUMBER_RE_match(Strip(line))
        num == IntOf(m)
        prev == st.prev_num
    IN  IF m = <<>> THEN st
        ELSE IF num = 1 THEN [st EXCEPT !.prev_num = <<1>>]
        ELSE [prev_num |-> <<num>>,
              warnings |->
                  IF prev # <<>> /\ num > prev[1] + 1
                  THEN st.warnings \o
                       [k \in 1..(num - prev[1] - 1) |->
                           GapWarning(prev[1] + k, prev[1], num)]
                  ELSE st.warnings]

RECURSIVE GapScan(_, _, _)
GapScan(text, i, st) ==
    IF i > Len(text) THEN st
    ELSE GapScan(text, i + 1, GapStep(st, text[i]))

\* _detect_numbering_gaps(text) raises ValueError from int()
DetectNumberingGapsRaises(text) ==
    \E i \in 1..Len(text) : IntRaises(STEP_NUMBER_RE_match(Strip(text[i])))

\* _detect_numbering_gaps(text), when it returns
DetectNumberingGaps(text) ==
    GapScan(text, 1, [prev_num |-> <<>>, warnings |-> <<>>]).warnings

\* `verb in text.lower()` for a verb followed by a space
ContainsVerbSpace(text, verb) ==
    \E i \in 1..Len(text) : \E k \in 1..(Len(text[i]) - 1) :
        LowerChar(text[i][k]) = verb /\ text[i][k + 1] = " "

\* `keyword in text.lower()`
ContainsKeyword(text, keyword) ==
    \E i \in 1..Len(text) : \E k \in 1..Len(text[i]) :
        LowerChar(text[i][k]) = keyword

SectionWarning(label) ==
    [type |-> "MISSING_SECTION", severity |-> "HIGH",
     message |-> <<label, " may be missing from the document">>]

\* a slip of DetectMissingSections: the sections are expected of every
\* text, procedural or not
DetectMissingSectionsUngated(text) ==
    (IF ContainsKeyword(text, "prerequisites") THEN <<>>
     ELSE <<SectionWarning("Prerequisites section")>>)
    \o
    (IF ContainsKeyword(text, "procedure") THEN <<>>
     ELSE <<SectionWarning("Procedure section")>>)

\* _detect_missing_sections(text)
DetectMissingSections(text) ==
    IF ~ \E verb \in {"choose", "select", "navigate"} :
            ContainsVerbSpace(text, verb)
    THEN <<>>
    ELSE (IF ContainsKeyword(text, "prerequisites") THEN <<>>
          ELSE <<SectionWarning("Prerequisites section")>>)
         \o
         (IF ContainsKeyword(text, "procedure") THEN <<>>
          ELSE <<SectionWarning("Procedure section")>>)

\* _prereq_lines(text)
PrereqLines(text) ==
    {NormalizeLine(text[i]) :
        i \in {j \in 1..Len(text) : ClassifyLine(text[j]) = "prerequisite"}}

PrerequisiteWarning(missing) ==
    [type |-> "MISSING_PREREQUISITE", severity |-> "HIGH",
     message |-> <<"Prerequisite removed: \"">> \o missing \o <<"\"">>]

\* a slip of MissingPrereqs: a prerequisite counts as still present when
\* any line of the new text has its normalized form, whatever its category
MissingPrereqsByKey(old, new) ==
    PrereqLines(old) \ {NormalizeLine(new[i]) : i \in 1..Len(new)}

\* old_prereqs - new_prereqs: the set the loop of
\* _detect_missing_prerequisites iterates over
MissingPrereqs(old, new) == PrereqLines(old) \ PrereqLines(new)

\* The orders in which a set can be iterated: every enumeration of it.  The
\* iteration order of a set of str follows the hashes of its elements, which
\* the interpreter salts with a seed drawn when the process starts; each
\* monitoring run (python main.py) is a process of its own.
IterationOrders(S) ==
    {f \in [1..Cardinality(S) -> S] : \A x \in S : \E i \in DOMAIN f : f[i] = x}

\* _detect_missing_prerequisites(old_text, new_text), the set difference
\* being iterated in the order iter
DetectMissingPrerequisites(old, new, iter) ==
    [i \in 1..Len(iter) |-> PrerequisiteWarning(iter[i])]

\* a slip of ValidateStructure: a warning of the new text is dropped when
\* the old text has a warning of its type, whatever the message
ValidateStructureByType(old, new, iter) ==
    LET old_warnings == DetectNumberingGaps(old) \o DetectMissingSections(old)
        new_warnings == DetectNumberingGaps(new) \o DetectMissingSections(new)
        old_types == {old_warnings[i].type : i \in 1..Len(old_warnings)}
        NewOnly(w) == w.type \notin old_types
    IN  SelectSeq(new_warnings, NewOnly)
        \o DetectMissingPrerequisites(old, new, iter)

\* a slip of ValidateStructure: the warnings of the new text are not
\* filtered against those of the old text
ValidateStructureUnfiltered(old, new, iter) ==
    DetectNumberingGaps(new) \o DetectMissingSections(new)
    \o DetectMissingPrerequisites(old, new, iter)

\* _validate_structure(old_text, new_text)
ValidateStructure(old, new, iter) ==
    LET old_warnings == DetectNumberingGaps(old) \o DetectMissingSections(old)
        new_warnings == DetectNumberingGaps(new) \o DetectMissingSections(new)
        old_msgs == {old_warnings[i].message : i \in 1..Len(old_warnings)}
        NewOnly(w) == w.message \notin old_msgs
    IN  SelectSeq(new_warnings, NewOnly)
        \o DetectMissingPrerequisites(old, new, iter)

(***************************************************************************)
(* Comparison of str values: by code point, character by character.        *)
(***************************************************************************)
\* the characters in ascending order of (first) code point
CodePointOrder ==
    <<"TAB", " ", "\"", ")", "*", "-", ".",
      "0", "1", "2", "3", "4", "5", "6", "7", "8", "9", "9x4301",
      ":", "=", ">",
      "A", "B", "C", "Choose", "In", "Must", "Need", "Note", "Prerequisites",
      "Procedure", "Save", "Select", "Steps", "You",
      "_",
      "a", "access", "admin", "b", "c", "choose", "have", "in", "must", "need", "note", "prerequisites",
      "procedure", "save", "select", "steps", "x*99", "x*100", "y*300", "you",
      "U00B7", "U00BB", "U2022", "U2023", "U2043", "U2192", "U2219", "U2500",
      "U25B6", "U25BA", "U25E6", "U279C", "U27A4">>

RankOf ==
    [c \in Range(CodePointOrder) |->
        CHOOSE i \in 1..Len(CodePointOrder) : CodePointOrder[i] = c]

Rank(c) == RankOf[c]

\* a < b for two str values
RECURSIVE StrLess(_, _)
StrLess(a, b) ==
    IF b = <<>> THEN FALSE
    ELSE IF a = <<>> THEN TRUE
    ELSE IF Head(a) = Head(b) THEN StrLess(Tail(a), Tail(b))
    ELSE Rank(Head(a)) < Rank(Head(b))

\* sorted(S) for a set of str
RECURSIVE Sorted(_)
Sorted(S) ==
    IF S = {} THEN <<>>
    ELSE LET m == CHOOSE x \in S : \A y \in S \ {x} : StrLess(x, y)
         IN  <<m>> \o Sorted(S \ {m})

(***************************************************************************)
(* Main comparison engine.                                                 *)
(***************************************************************************)
_SEVERITY_ORDER == [HIGH |-> 3, MEDIUM |-> 2, LOW |-> 1]

\* _SEVERITY_ORDER.get(s, 0)
SeverityOrder(s) ==
    IF s \in DOMAIN _SEVERITY_ORDER THEN _SEVERITY_ORDER[s] ELSE 0

\* the lines of text that enter the normalized list, in order: not noise,
\* and with a non-empty normalized form
Survivors(text) ==
    LET Kept(line) == ~ IsNoise(line) /\ NormalizeLine(line) # <<>>
    IN  SelectSeq(text, Kept)

\* old_norm_list / new_norm_list, kept being the lines that enter it
NormList(kept) == [i \in 1..Len(kept) |-> NormalizeLine(kept[i])]

\* Counter(norm_list).get(norm, 0)
NormCount(norm_list, norm) ==
    Cardinality({i \in 1..Len(norm_list) : norm_list[i] = norm})

\* a slip of NormMapGet: the map is assigned, not setdefault, and the last
\* line of a key replaces the earlier ones
NormMapGetLast(kept, norm_list, norm) ==
    LET S == {i \in 1..Len(norm_list) : norm_list[i] = norm}
    IN  IF S = {} THEN norm
        ELSE Strip(kept[CHOOSE i \in S : \A j \in S : i >= j])

\* norm_map.get(norm, norm): setdefault keeps the first line, stripped;
\* kept are the lines that entered norm_list
NormMapGet(kept, norm_list, norm) ==
    LET S == {i \in 1..Len(norm_list) : norm_list[i] = norm}
    IN  IF S = {} THEN norm
        ELSE Strip(kept[CHOOSE i \in S : \A j \in S : i <= j])

\* a slip of Entries: a set-based diff, one entry per key whatever the
\* difference of the counts
EntriesOncePerKey(original, n) ==
    LET cat == ClassifyLine(original)
    IN  IF cat = "noise" THEN <<>>
        ELSE <<[text |-> original, severity |-> SeverityFor(cat),
                category |-> cat]>>

\* a slip of Entries: the entries are built before the line is classified,
\* with the category and the severity of an unclassified line
EntriesUnclassified(original, n) ==
    [k \in 1..n |->
        [text |-> original, severity |-> SeverityFor("noise"),
         category |-> "noise"]]

\* the entries appended for one key of one side: n copies of the entry of
\* its representative line, none when that line classifies as noise
Entries(original, n) ==
    LET cat == ClassifyLine(original)
    IN  IF cat = "noise" THEN <<>>
        ELSE [k \in 1..n |->
                 [text |-> original, severity |-> SeverityFor(cat),
                  category |-> cat]]

\* a slip of RemovedFrom: one entry per key with fewer copies, however many
\* copies are gone
RECURSIVE RemovedFromOncePerKey(_, _, _, _, _)
RemovedFromOncePerKey(old_kept, old_norm_list, new_norm_list, keys, i) ==
    IF i > Len(keys) THEN <<>>
    ELSE (IF NormCount(old_norm_list, keys[i])
               > NormCount(new_norm_list, keys[i])
          THEN Entries(NormMapGet(old_kept, old_norm_list, keys[i]), 1)
          ELSE <<>>)
         \o RemovedFromOncePerKey(old_kept, old_norm_list, new_norm_list,
                                  keys, i + 1)

\* result['removed'] after the loop over sorted(all_norms), from keys[i] on
RECURSIVE RemovedFrom(_, _, _, _, _)
RemovedFrom(old_kept, old_norm_list, new_norm_list, keys, i) ==
    IF i > Len(keys) THEN <<>>
    ELSE LET old_c == NormCount(old_norm_list, keys[i])
             new_c == NormCount(new_norm_list, keys[i])
         IN  (IF old_c > new_c
              THEN Entries(NormMapGet(old_kept, old_norm_list, keys[i]),
                           old_c - new_c)
              ELSE <<>>)
             \o RemovedFrom(old_kept, old_norm_list, new_norm_list, keys, i + 1)

\* result['added'] after the loop over sorted(all_norms), from keys[i] on
RECURSIVE AddedFrom(_, _, _, _, _)
AddedFrom(new_kept, old_norm_list, new_norm_list, keys, i) ==
    IF i > Len(keys) THEN <<>>
    ELSE LET old_c == NormCount(old_norm_list, keys[i])
             new_c == NormCount(new_norm_list, keys[i])
         IN  (IF old_c > new_c THEN <<>>
              ELSE IF new_c > old_c
              THEN Entries(NormMapGet(new_kept, new_norm_list, keys[i]),
                           new_c - old_c)
              ELSE <<>>)
             \o AddedFrom(new_kept, old_norm_list, new_norm_list, keys, i + 1)

\* a slip of SortBySeverity: the key without its sign, so LOW sorts first
SortBySeverityAscending(list) ==
    LET Is3(e) == SeverityOrder(e.severity) = 3
        Is2(e) == SeverityOrder(e.severity) = 2
        Is1(e) == SeverityOrder(e.severity) = 1
        Is0(e) == SeverityOrder(e.severity) = 0
    IN  SelectSeq(list, Is0) \o SelectSeq(list, Is1)
        \o SelectSeq(list, Is2) \o SelectSeq(list, Is3)

\* list.sort(key=_skey): a stable sort by descending severity order
SortBySeverity(list) ==
    LET Is3(e) == SeverityOrder(e.severity) = 3
        Is2(e) == SeverityOrder(e.severity) = 2
        Is1(e) == SeverityOrder(e.severity) = 1
        Is0(e) == SeverityOrder(e.severity) = 0
    IN  SelectSeq(list, Is3) \o SelectSeq(list, Is2)
        \o SelectSeq(list, Is1) \o SelectSeq(list, Is0)

\* a slip of MaxSeverity: max() without its key, which compares the
\* severities as str: "MEDIUM" > "LOW" > "HIGH"
MaxSeverityNoKey(all_sevs) ==
    IF all_sevs = <<>> THEN "None"
    ELSE IF \E i \in 1..Len(all_sevs) : all_sevs[i] = "MEDIUM" THEN "MEDIUM"
    ELSE IF \E i \in 1..Len(all_sevs) : all_sevs[i] = "LOW" THEN "LOW"
    ELSE "HIGH"

\* max(all_sevs, key=...): the first element of greatest severity order;
\* "None" stands for None
MaxSeverity(all_sevs) ==
    IF all_sevs = <<>> THEN "None"
    ELSE all_sevs[CHOOSE i \in 1..Len(all_sevs) :
                    /\ \A j \in 1..Len(all_sevs) :
                          SeverityOrder(all_sevs[j]) <= SeverityOrder(all_sevs[i])
                    /\ \A j \in 1..(i - 1) :
                          SeverityOrder(all_sevs[j]) < SeverityOrder(all_sevs[i])]

Severities(list) == [i \in 1..Len(list) |-> list[i].severity]

\* compare(old_text, new_text) raises: the only raising call is int()
CompareRaises(old, new) ==
    DetectNumberingGapsRaises(old) \/ DetectNumberingGapsRaises(new)

\* a slip of HasChanges: only additions count as changes
HasChangesAddedOnly(added, removed) == added # <<>>

\* result['has_changes']
HasChanges(added, removed) == added # <<>> \/ removed # <<>>

\* compare(old_text, new_text), when it returns; iter is the order in which
\* the set of missing prerequisites is iterated
Compare(old, new, iter) ==
    LET old_kept == Survivors(old)
        new_kept == Survivors(new)
        old_norm_list == NormList(old_kept)
        new_norm_list == NormList(new_kept)
        keys == Sorted(Range(old_norm_list) \cup Range(new_norm_list))
        added == AddedFrom(new_kept, old_norm_list, new_norm_list, keys, 1)
        removed == RemovedFrom(old_kept, old_norm_list, new_norm_list, keys, 1)
        warnings == ValidateStructure(old, new, iter)
    IN  [has_changes |-> HasChanges(added, removed),
         added |-> SortBySeverity(added),
         removed |-> SortBySeverity(removed),
         structural_warnings |-> SortBySeverity(warnings),
         max_severity |->
             MaxSeverity(Severities(added) \o Severities(removed)
                         \o Severities(warnings))]

(***************************************************************************)
(* Concurrent calls.  Each worker calls compare once on its own arguments; *)
(* a call proceeds in the steps of the function body, and the steps of the *)
(* workers interleave.  A call keeps its local variables (the lists, the   *)
(* maps and the result dict of lines 290-302) in a frame.                  *)
(***************************************************************************)
Workers == {"w1", "w2"}

\* the dicts and sets bound at module level
ModuleTables ==
    [_ACTION_VERBS |-> ACTION_VERBS, _SECTION_KEYWORDS |-> SECTION_KEYWORDS,
     _SEVERITY_MAP |-> _SEVERITY_MAP, _SEVERITY_ORDER |-> _SEVERITY_ORDER]

\* the result dict of lines 290-296, None being "None"
FreshResult ==
    [has_changes |-> FALSE, added |-> <<>>, removed |-> <<>>,
     structural_warnings |-> <<>>, max_severity |-> "None"]

\* the locals of a call that has just been entered
FreshFrame == [old_kept |-> <<>>, new_kept |-> <<>>, result |-> FreshResult]

\* a slip of FrameOf: the lists, the maps and the result dict are bound at
\* module level, one set for all calls
FrameShared(w) == "w1"

\* the frame of worker w's call: a call has locals of its own
FrameOf(w) == w

\* no worker has entered compare
WorkersIdle ==
    /\ pc = [w \in Workers |-> "idle"]
    /\ frames = [w \in Workers |-> FreshFrame]
    /\ returns = [w \in Workers |-> <<>>]
    /\ module_tables = ModuleTables

\* lines 290-302: the call is entered, its locals are created
Enter(w) ==
    /\ pc[w] = "idle"
    /\ pc' = [pc EXCEPT ![w] = "entered"]
    /\ frames' = [frames EXCEPT ![FrameOf(w)] = FreshFrame]
    /\ UNCHANGED <<args, returns, module_tables>>
    /\ UNCHANGED <<callVars, monitorVars, storeVars, keyVars, fetchVars>>

\* lines 304-310: the loop over the lines of old_text
ScanOld(w) ==
    /\ pc[w] = "entered"
    /\ pc' = [pc EXCEPT ![w] = "scanned_old"]
    /\ frames' = [frames EXCEPT
                     ![FrameOf(w)].old_kept = Survivors(args[w].old_text)]
    /\ UNCHANGED <<args, returns, module_tables>>
    /\ UNCHANGED <<callVars, monitorVars, storeVars, keyVars, fetchVars>>

\* lines 312-318: the loop over the lines of new_text
ScanNew(w) ==
    /\ pc[w] = "scanned_old"
    /\ pc' = [pc EXCEPT ![w] = "scanned_new"]
    /\ frames' = [frames EXCEPT
                     ![FrameOf(w)].new_kept = Survivors(args[w].new_text)]
    /\ UNCHANGED <<args, returns, module_tables>>
    /\ UNCHANGED <<callVars, monitorVars, storeVars, keyVars, fetchVars>>

\* lines 320-356: the counts and the loop over sorted(all_norms)
Diff(w) ==
    /\ pc[w] = "scanned_new"
    /\ pc' = [pc EXCEPT ![w] = "diffed"]
    /\ LET f == frames[FrameOf(w)]
           old_norm_list == NormList(f.old_kept)
           new_norm_list == NormList(f.new_kept)
           keys == Sorted(Range(old_norm_list) \cup Range(new_norm_list))
       IN  frames' = [frames EXCEPT
               ![FrameOf(w)].result.added =
                   f.result.added \o
                   AddedFrom(f.new_kept, old_norm_list, new_norm_list, keys, 1),
               ![FrameOf(w)].result.removed =
                   f.result.removed \o
                   RemovedFrom(f.old_kept, old_norm_list, new_norm_list,
                               keys, 1)]
    /\ UNCHANGED <<args, returns, module_tables>>
    /\ UNCHANGED <<callVars, monitorVars, storeVars, keyVars, fetchVars>>

\* line 359: structural validation, on the arguments
Validate(w) ==
    /\ pc[w] = "diffed"
    /\ pc' = [pc EXCEPT ![w] = "validated"]
    /\ \E iter \in IterationOrders(
                       MissingPrereqs(args[w].old_text, args[w].new_text)) :
          frames' = [frames EXCEPT
              ![FrameOf(w)].result.structural_warnings =
                  ValidateStructure(args[w].old_text, args[w].new_text, iter)]
    /\ UNCHANGED <<args, returns, module_tables>>
    /\ UNCHANGED <<callVars, monitorVars, storeVars, keyVars, fetchVars>>

\* lines 361-381: the flags, the sorts and the return
Finish(w) ==
    /\ pc[w] = "validated"
    /\ pc' = [pc EXCEPT ![w] = "returned"]
    /\ LET r == frames[FrameOf(w)].result
       IN  returns' = [returns EXCEPT ![w] =
               <<[has_changes |-> HasChanges(r.added, r.removed),
                  added |-> SortBySeverity(r.added),
                  removed |-> SortBySeverity(r.removed),
                  structural_warnings |-> SortBySeverity(r.structural_warnings),
                  max_severity |->
                      MaxSeverity(Severities(r.added) \o Severities(r.removed)
                                  \o Severities(r.structural_warnings))]>>]
    /\ UNCHANGED <<args, frames, module_tables>>
    /\ UNCHANGED <<callVars, monitorVars, storeVars, keyVars, fetchVars>>

NextWorkers ==
    \/ \E w \in Workers : Enter(w)
    \/ \E w \in Workers : ScanOld(w)
    \/ \E w \in Workers : ScanNew(w)
    \/ \E w \in Workers : Diff(w)
    \/ \E w \in Workers : Validate(w)
    \/ \E w \in Workers : Finish(w)

(***************************************************************************)
(* The monitoring run (main.py, main): the pages of the page list are      *)
(* fetched one by one into current_content, then compared one by one with  *)
(* the previous snapshots.                                                 *)
(***************************************************************************)
MIN_SNAPSHOT_LENGTH == 100

\* runs of letters written as one character, with their lengths
LetterRuns == ("x*99" :> 99) @@ ("x*100" :> 100) @@ ("y*300" :> 300)

\* the characters written by a name longer than one letter
NamedCharacters ==
    {"TAB"} \cup BULLET_RE_Glyphs \cup ARROW_RE_Glyphs \cup SEPARATOR_RE_Chars

\* len() of one character of the model
CharLength(c) ==
    IF c = LongDigitRun THEN INT_MAX_STR_DIGITS + 1
    ELSE IF c \in DOMAIN LetterRuns THEN LetterRuns[c]
    ELSE IF c \in NamedCharacters THEN 1
    ELSE Len(c)

\* the text as one str: its lines joined by "\n"
RECURSIVE JoinLines(_, _)
JoinLines(text, i) ==
    IF i > Len(text) THEN <<>>
    ELSE text[i] \o (IF i < Len(text) THEN <<"\n">> ELSE <<>>)
         \o JoinLines(text, i + 1)

RECURSIVE StrLength(_)
StrLength(s) == IF s = <<>> THEN 0 ELSE CharLength(Head(s)) + StrLength(Tail(s))

\* len(text.strip())
StrippedLength(text) ==
    LET s == JoinLines(text, 1)
        i == SkipWhile(s, 1, Whitespace \cup {"\n"})
        j == SkipBack(s, Len(s), Whitespace \cup {"\n"})
    IN  IF i > Len(s) THEN 0 ELSE StrLength(SubSeq(s, i, j))

\* the page names of the model: two plain titles and one with a colon
PageNames ==
    {<<"Overview">>, <<"Setup">>, <<"Setup", ":", " ", "Overview">>}

\* normalize_page_name: page_name.strip().lower()
normalize_page_name(page_name) == Lower(Strip(page_name))

\* the character class of the re.sub of sanitize_filename
InvalidFilenameChars == {"<", ">", ":", "\"", "/", "\\", "|", "?", "*"}

\* the length limit of sanitize_filename
FilenameLimit == 100

\* s[:n], for a cut that falls between two characters of the model
RECURSIVE Truncate(_, _)
Truncate(s, n) ==
    IF s = <<>> \/ CharLength(Head(s)) > n THEN <<>>
    ELSE <<Head(s)>> \o Truncate(Tail(s), n - CharLength(Head(s)))

\* str.replace(a, b) for one-character a and b
Replace(s, a, b) == [i \in 1..Len(s) |-> IF s[i] = a THEN b ELSE s[i]]

\* page_number is None
NoNumber == <<>>

\* sanitize_filename(page_name, page_number)
sanitize_filename(page_name, page_number) ==
    LET Valid(c) == c \notin InvalidFilenameChars
        safe_name ==
            Truncate(Replace(SelectSeq(page_name, Valid), " ", "_"),
                     FilenameLimit)
    IN  IF page_number # NoNumber THEN page_number \o <<"_">> \o safe_name
        ELSE safe_name

\* the end of the match of (\.\d+)* from i
RECURSIVE NumberGroupsEnd(_, _)
NumberGroupsEnd(s, i) ==
    IF /\ i + 1 <= Len(s)
       /\ s[i] = "."
       /\ s[i + 1] \in DigitRunChars
    THEN NumberGroupsEnd(s, SkipWhile(s, i + 1, DigitRunChars))
    ELSE i

\* re.sub(r'^\d+(\.\d+)*_', '', name)
PageNumberPrefix_sub(s) ==
    LET d == SkipWhile(s, 1, DigitRunChars)
        e == NumberGroupsEnd(s, d)
    IN  IF d > 1 /\ e <= Len(s) /\ s[e] = "_"
        THEN SubSeq(s, e + 1, Len(s))
        ELSE s

\* the file name extension of the snapshots, one character of the model
TxtSuffix == ".txt"

\* extract_page_name_from_filename(filename)
extract_page_name_from_filename(filename) ==
    LET name == IF filename # <<>> /\ filename[Len(filename)] = TxtSuffix
                THEN SubSeq(filename, 1, Len(filename) - 1)
                ELSE filename
    IN  Lower(Strip(Replace(PageNumberPrefix_sub(name), "_", " ")))

\* str(i) for the number of an entry of the page list
Str(i) == <<CHOOSE d \in Digits : DigitValue(d) = i>>

\* f"{sanitize_filename(page_name, page_number)}.txt"
SnapshotFileName(page_name, page_number) ==
    sanitize_filename(page_name, page_number) \o <<TxtSuffix>>

\* the keys load_previous_snapshots can give: the keys read back from the
\* file names of the pages
LoadableKeys ==
    {extract_page_name_from_filename(SnapshotFileName(n, Str(1))) :
        n \in PageNames}

\* the keys previous_snapshots is looked up with
SnapshotKeys == {normalize_page_name(n) : n \in PageNames} \cup LoadableKeys

\* how the fetch and extraction of a page can end besides with a text:
\* fetch_page raised RuntimeError after its retries, or something else raised
FetchErrors == {"RuntimeError", "Exception"}

\* the outcomes of the fetch and extraction of a page: an error, or the
\* extracted text
FetchOutcomes(texts) ==
    {[error |-> e, text |-> <<>>] : e \in FetchErrors}
    \cup {[error |-> "None", text |-> t] : t \in texts}

\* fetch_page_content: <<text>>, or <<>> for None
fetch_page_content(outcome) ==
    IF outcome.error \in FetchErrors THEN <<>>
    ELSE IF \/ outcome.text = <<>>
            \/ StrippedLength(outcome.text) < MIN_SNAPSHOT_LENGTH
    THEN <<>>
    ELSE <<outcome.text>>

MonitorIdle ==
    /\ phase = "idle"
    /\ page_list = <<>>
    /\ page_index = 0
    /\ fetch_results = <<>>
    /\ current_content = [n \in PageNames |-> <<>>]
    /\ previous_snapshots = [n \in SnapshotKeys |-> <<>>]
    /\ all_changes = <<>>
    /\ compare_calls = <<>>

\* no snapshot directory is looked at
StoreIdle ==
    /\ snapshot_files = <<>>
    /\ run_number = 0
    /\ reports = <<>>

\* no snapshot is named
KeyIdle ==
    /\ key_name = <<>>
    /\ key_number = <<>>
    /\ key_file = <<>>
    /\ key_loaded = <<>>

\* fetch_page is not called
FetchIdle ==
    /\ url = "none"
    /\ max_retries = 0
    /\ fetch_pc = "idle"
    /\ attempt = 0
    /\ attempts = <<>>
    /\ sleeps = <<>>
    /\ http = <<>>
    /\ fetched = <<>>

\* the loop moves to the next entry of page_list, or ends
NextEntry(next_phase) ==
    IF page_index < Len(page_list)
    THEN /\ page_index' = page_index + 1
         /\ phase' = phase
    ELSE /\ page_index' = 1
         /\ phase' = next_phase

\* urls_dict.get(page_name): the URL of the last entry with that name, a
\* URL being written as the place of its entry in the page list
UrlOf(page_name) ==
    CHOOSE i \in 1..Len(page_list) :
        /\ page_list[i] = page_name
        /\ \A j \in (i + 1)..Len(page_list) : page_list[j] # page_name

\* [l.strip() for l in text.splitlines() if l.strip()]
ContentLines(text) ==
    LET NotBlank(line) == Strip(line) # <<>>
        kept == SelectSeq(text, NotBlank)
    IN  [i \in 1..Len(kept) |-> Strip(kept[i])]

\* lines 948-952: one page is fetched; texts is what the site can serve
FetchPage(texts) ==
    /\ phase = "fetch"
    /\ \E outcome \in FetchOutcomes(texts) :
          /\ fetch_results' = Append(fetch_results, outcome)
          /\ current_content' =
                IF fetch_page_content(outcome) # <<>>
                THEN [current_content EXCEPT ![page_list[page_index]] =
                         fetch_page_content(outcome)]
                ELSE current_content
    /\ NextEntry("compare")
    /\ UNCHANGED <<page_list, previous_snapshots, all_changes, compare_calls>>
    /\ UNCHANGED <<callVars, workerVars, storeVars, keyVars, fetchVars>>

\* lines 964-970: the page has no current content and is skipped
SkipPage ==
    /\ phase = "compare"
    /\ current_content[page_list[page_index]] = <<>>
    /\ NextEntry("compared")
    /\ UNCHANGED <<page_list, fetch_results, current_content,
                   previous_snapshots, all_changes, compare_calls>>
    /\ UNCHANGED <<callVars, workerVars, storeVars, keyVars, fetchVars>>

\* lines 972-984: the page has content and no previous snapshot
ReportNewPage ==
    /\ phase = "compare"
    /\ current_content[page_list[page_index]] # <<>>
    /\ previous_snapshots[normalize_page_name(page_list[page_index])] = <<>>
    /\ LET content_lines ==
               ContentLines(current_content[page_list[page_index]][1])
       IN  all_changes' = Append(all_changes,
               [page_name |-> page_list[page_index],
                url |-> UrlOf(page_list[page_index]), is_new_page |-> TRUE,
                content_preview |->
                    SubSeq(content_lines, 1,
                           IF Len(content_lines) < 15 THEN Len(content_lines)
                           ELSE 15),
                total_lines |-> Len(content_lines)])
    /\ NextEntry("compared")
    /\ UNCHANGED <<page_list, fetch_results, current_content,
                   previous_snapshots, compare_calls>>
    /\ UNCHANGED <<callVars, workerVars, storeVars, keyVars, fetchVars>>

\* a slip of ChangesAfterCompare: the page is appended when the result has
\* changes or structural warnings
ChangesAfterCompareOrWarnings(page_name, snapshot, current_text, r) ==
    IF ~ r.has_changes /\ r.structural_warnings = <<>> THEN all_changes
    ELSE Append(all_changes,
             [page_name |-> page_name, url |-> UrlOf(page_name),
              added |-> r.added,
              removed |-> r.removed,
              structural_warnings |-> r.structural_warnings,
              max_severity |-> r.max_severity])

\* lines 989-1016: all_changes after the comparison of the page page_name
\* returned r: the page is appended when it has changes, unless the text
\* shrank by more than 70% with nothing added
ChangesAfterCompare(page_name, snapshot, current_text, r) ==
    IF ~ r.has_changes THEN all_changes
    ELSE IF /\ StrippedLength(snapshot) # 0
            /\ 10 * (StrippedLength(snapshot) - StrippedLength(current_text))
                   > 7 * StrippedLength(snapshot)
            /\ Len(r.added) = 0
    THEN all_changes
    ELSE Append(all_changes,
             [page_name |-> page_name, url |-> UrlOf(page_name),
              added |-> r.added,
              removed |-> r.removed,
              structural_warnings |-> r.structural_warnings,
              max_severity |-> r.max_severity])

\* the previous snapshot of the page the loop is at
SnapshotOfPage ==
    previous_snapshots[normalize_page_name(page_list[page_index])]

\* lines 985-1016: the page has content and a previous snapshot: compare is
\* called, and the page is reported when it has changes that are not a
\* suspicious shrinkage
ComparePage ==
    /\ phase = "compare"
    /\ current_content[page_list[page_index]] # <<>>
    /\ SnapshotOfPage # <<>>
    /\ ~ CompareRaises(SnapshotOfPage[1],
                       current_content[page_list[page_index]][1])
    /\ \E iter \in IterationOrders(
                       MissingPrereqs(SnapshotOfPage[1],
                           current_content[page_list[page_index]][1])) :
          all_changes' =
              ChangesAfterCompare(page_list[page_index], SnapshotOfPage[1],
                  current_content[page_list[page_index]][1],
                  Compare(SnapshotOfPage[1],
                          current_content[page_list[page_index]][1], iter))
    /\ compare_calls' = Append(compare_calls, page_index)
    /\ NextEntry("compared")
    /\ UNCHANGED <<page_list, fetch_results, current_content,
                   previous_snapshots>>
    /\ UNCHANGED <<callVars, workerVars, storeVars, keyVars, fetchVars>>

(***************************************************************************)
(* The rest of a monitoring run, and the run after it: the removed pages   *)
(* are detected, the snapshot directory is rewritten from the page list,   *)
(* and the next run of main loads the previous snapshots from it.  The     *)
(* directory of a run with Cloud Storage is the bucket, which the run      *)
(* downloads at its start and synchronizes at its end.                     *)
(***************************************************************************)
\* str.title() of a key: each word with its first letter in upper case
TitleChar(c) ==
    IF \E u \in DOMAIN UpperWords : UpperWords[u] = c
    THEN CHOOSE u \in DOMAIN UpperWords : UpperWords[u] = c
    ELSE c

Title(s) == [i \in 1..Len(s) |-> TitleChar(s[i])]

\* line 1019: the normalized names of the pages of the list
CurrentNorms == {normalize_page_name(page_list[i]) : i \in 1..Len(page_list)}

\* line 1021: the keys of the previous snapshots that match no listed page
RemovedKeys ==
    {k \in SnapshotKeys : previous_snapshots[k] # <<>> /\ k \notin CurrentNorms}

\* lines 1022-1030: the change dict of a removed page, '' being 0
RemovedPageEntry(norm) ==
    [page_name |-> Title(norm), url |-> 0, is_removed_page |-> TRUE,
     total_lines |-> Len(ContentLines(previous_snapshots[norm][1]))]

\* lines 1018-1030: previous_snapshots is iterated, in the order of its
\* keys (the order in which os.listdir gave the files)
DetectRemovedPages ==
    /\ phase = "compared"
    /\ \E order \in IterationOrders(RemovedKeys) :
          all_changes' =
              all_changes
              \o [i \in 1..Len(order) |-> RemovedPageEntry(order[i])]
    /\ phase' = "save"
    /\ UNCHANGED <<page_list, page_index, fetch_results, current_content,
                   previous_snapshots, compare_calls>>
    /\ UNCHANGED <<callVars, workerVars, storeVars, keyVars, fetchVars>>

\* save_snapshot(snapshot_file, content) on the directory files
save_snapshot(files, snapshot_file, content) ==
    IF content = <<>> \/ StrippedLength(content) < MIN_SNAPSHOT_LENGTH
    THEN files
    ELSE (snapshot_file :> <<content>>) @@ files

\* lines 1057-1061: the content saved for entry i of the page list, <<>>
\* for None
ContentToSave(i) ==
    IF current_content[page_list[i]] # <<>>
    THEN current_content[page_list[i]]
    ELSE previous_snapshots[normalize_page_name(page_list[i])]

\* lines 1056-1070: the directory after the entries from i on are saved
RECURSIVE SavedFrom(_, _)
SavedFrom(files, i) ==
    IF i > Len(page_list) THEN files
    ELSE SavedFrom(
             IF ContentToSave(i) # <<>> /\ ContentToSave(i)[1] # <<>>
             THEN save_snapshot(files,
                      SnapshotFileName(page_list[i], Str(i)),
                      ContentToSave(i)[1])
             ELSE files,
             i + 1)

\* lines 1049-1076: the directory is emptied and the snapshots of the
\* listed pages are written to it (upload_all_snapshots makes the bucket
\* equal to the directory)
SaveSnapshots ==
    /\ phase = "save"
    /\ snapshot_files' = SavedFrom(<<>>, 1)
    /\ phase' = "saved"
    /\ UNCHANGED <<run_number, reports>>
    /\ UNCHANGED <<page_list, page_index, fetch_results, current_content,
                   previous_snapshots, all_changes, compare_calls>>
    /\ UNCHANGED <<callVars, workerVars, keyVars, fetchVars>>

\* the files of the directory whose name gives the key norm
FilesWithKey(files, norm) ==
    {f \in DOMAIN files : extract_page_name_from_filename(f) = norm}

\* load_previous_snapshots: each key has the content of a file with that
\* key, the last one os.listdir gives when there are several
LoadedSnapshots(files) ==
    {p \in [SnapshotKeys ->
               {<<>>} \cup {files[f] : f \in DOMAIN files}] :
        \A k \in SnapshotKeys :
            IF FilesWithKey(files, k) = {} THEN p[k] = <<>>
            ELSE \E f \in FilesWithKey(files, k) : p[k] = files[f]}

\* lines 899-945 of the next run of main, over the same page list
StartRun(max_runs) ==
    /\ phase = "saved"
    /\ run_number < max_runs
    /\ run_number' = run_number + 1
    /\ reports' = Append(reports, all_changes)
    /\ previous_snapshots' \in LoadedSnapshots(snapshot_files)
    /\ phase' = "fetch"
    /\ page_index' = 1
    /\ fetch_results' = <<>>
    /\ current_content' = [n \in PageNames |-> <<>>]
    /\ all_changes' = <<>>
    /\ compare_calls' = <<>>
    /\ UNCHANGED <<page_list, snapshot_files>>
    /\ UNCHANGED <<callVars, workerVars, keyVars, fetchVars>>

(***************************************************************************)
(* fetch_page (fetcher/fetch_page.py).  An HTML document is described by   *)
(* what validate_content looks at: whether it is None, whether it is blank *)
(* (len(html.strip()) == 0), whether it contains an error marker, and the  *)
(* length of its visible text.                                             *)
(***************************************************************************)
MIN_CONTENT_LENGTH == 100

\* validate_content(html)[0]
validate_content(html) ==
    IF html.none THEN FALSE
    ELSE IF html.blank THEN FALSE
    ELSE IF html.marker THEN FALSE
    ELSE IF html.visible < MIN_CONTENT_LENGTH THEN FALSE
    ELSE TRUE

\* f"<html><body><pre>{response.text}</pre></body></html>"
PreWrapped(html) == [html EXCEPT !.blank = FALSE]

\* what fetch_page returns for the response of requests.get, <<>> when it
\* goes on to Selenium: the status is not 200
HttpReturn(response) ==
    IF response.status_code # 200 THEN <<>>
    ELSE IF response.content_type \in {"application/json", "text/plain"}
    THEN <<PreWrapped(response.text)>>
    ELSE <<response.text>>

\* 'help.sap.com' not in url
IsSapUrl(u) == u = "help.sap.com"

\* lines 185-203: the simple HTTP request of a URL that is not of the SAP
\* Help Portal; it returns the response of status 200, and goes on to
\* Selenium when the request raised or the status is another
HttpGet(responses) ==
    /\ fetch_pc = "start"
    /\ ~ IsSapUrl(url)
    /\ \E response \in responses :
          /\ http' = <<response>>
          /\ IF response.raised \/ HttpReturn(response) = <<>>
             THEN /\ fetch_pc' = "loop"
                  /\ attempt' = 1
                  /\ fetched' = fetched
             ELSE /\ fetch_pc' = "returned"
                  /\ attempt' = attempt
                  /\ fetched' = HttpReturn(response)
    /\ UNCHANGED <<url, max_retries, attempts, sleeps>>
    /\ UNCHANGED <<callVars, workerVars, monitorVars, storeVars, keyVars>>

\* lines 202-209: a URL of the SAP Help Portal goes to Selenium at once
UseSelenium ==
    /\ fetch_pc = "start"
    /\ IsSapUrl(url)
    /\ fetch_pc' = "loop"
    /\ attempt' = 1
    /\ UNCHANGED <<url, max_retries, attempts, sleeps, http, fetched>>
    /\ UNCHANGED <<callVars, workerVars, monitorVars, storeVars, keyVars>>

\* lines 212-234: the attempt succeeded: _fetch_with_selenium returned and
\* the HTML validates
AttemptValid(outcome) == ~ outcome.raised /\ validate_content(outcome.html)

\* a slip of BackOffDue: the wait follows every failed attempt
BackOffAlways(n, retries) == TRUE

\* line 237: the wait follows a failed attempt that is not the last
BackOffDue(n, retries) == n < retries

\* lines 209-240: one pass of the retry loop
SeleniumAttempt(outcomes) ==
    /\ fetch_pc = "loop"
    /\ attempt <= max_retries
    /\ \E outcome \in outcomes :
          /\ attempts' = Append(attempts, outcome)
          /\ IF AttemptValid(outcome)
             THEN /\ fetch_pc' = "returned"
                  /\ fetched' = <<outcome.html>>
                  /\ UNCHANGED <<attempt, sleeps>>
             ELSE /\ sleeps' = IF BackOffDue(attempt, max_retries)
                               THEN Append(sleeps, 2 ^ attempt)
                               ELSE sleeps
                  /\ attempt' = attempt + 1
                  /\ UNCHANGED <<fetch_pc, fetched>>
    /\ UNCHANGED <<url, max_retries, http>>
    /\ UNCHANGED <<callVars, workerVars, monitorVars, storeVars, keyVars>>

\* lines 242-245: the loop ended without a return
RaiseRuntimeError ==
    /\ fetch_pc = "loop"
    /\ attempt > max_retries
    /\ fetch_pc' = "raised"
    /\ UNCHANGED <<url, max_retries, attempt, attempts, sleeps, http, fetched>>
    /\ UNCHANGED <<callVars, workerVars, monitorVars, storeVars, keyVars>>

(***************************************************************************)
(* The state machine: compare is called on a pair of texts, any number of  *)
(* times (once per monitoring run while the page and its snapshot stay the *)
(* same).                                                                  *)
(***************************************************************************)
\* the longest text, in lines
MaxLines == 3

\* the texts of at most n lines over the lines of catalog
TextsUpTo(catalog, n) == UNION {[1..k -> catalog] : k \in 0..n}

\* a call of compare(old_text, new_text)
Call ==
    /\ previous' = result
    /\ IF CompareRaises(old_text, new_text)
       THEN /\ result' = <<>>
            /\ raised' = <<"ValueError">>
       ELSE /\ \E iter \in IterationOrders(MissingPrereqs(old_text, new_text)) :
                   result' = <<Compare(old_text, new_text, iter)>>
            /\ raised' = <<>>
    /\ UNCHANGED <<old_text, new_text>>
    /\ UNCHANGED workerVars
    /\ UNCHANGED monitorVars
    /\ UNCHANGED <<storeVars, keyVars, fetchVars>>

Next == Call

NotCalled ==
    /\ result = <<>>
    /\ raised = <<>>
    /\ previous = <<>>
    /\ WorkersIdle
    /\ args = [w \in Workers |-> [old_text |-> <<>>, new_text |-> <<>>]]
    /\ MonitorIdle
    /\ StoreIdle
    /\ KeyIdle
    /\ FetchIdle

\* the last call returned
Returned == result # <<>>

(***************************************************************************)
(* The lines of the inputs.                                                *)
(***************************************************************************)
\* "Choose Save."
LineChooseSave == <<"Choose", " ", "Save", ".">>
\* "<bullet> choose  save."
LineBulletChooseSave == <<"U2022", " ", "choose", " ", " ", "save", ".">>
\* "1. a", "2. b", "3. a", "3. c", "4. c"
LineStep1A == <<"1", ".", " ", "a">>
LineStep2B == <<"2", ".", " ", "b">>
LineStep3A == <<"3", ".", " ", "a">>
LineStep3C == <<"3", ".", " ", "c">>
LineStep4C == <<"4", ".", " ", "c">>
\* "1. Choose a"
LineStep1ChooseA == <<"1", ".", " ", "Choose", " ", "a">>
\* "Note: b"
LineNoteB == <<"Note", ":", " ", "b">>
\* "-"
LineDash == <<"-">>
\* "You must a", "- you need b"
LineYouMustA == <<"You", " ", "must", " ", "a">>
LineYouNeedB == <<"-", " ", "you", " ", "need", " ", "b">>
\* "<triangular bullet> You must a"
LineTriBulletYouMustA == <<"U2023", " ", "You", " ", "must", " ", "a">>
\* "You must have admin access."
LineYouMustHaveAdminAccess ==
    <<"You", " ", "must", " ", "have", " ", "admin", " ", "access", ".">>
\* "Choose", "select a", "Select<tab>a", "procedure"
LineChoose == <<"Choose">>
LineSelectA == <<"select", " ", "a">>
LineSelectTabA == <<"Select", "TAB", "a">>
LineProcedure == <<"procedure">>
\* "Steps in a"
LineStepsInA == <<"Steps", " ", "in", " ", "a">>
\* " <bullet> choose save. ", with a space at both ends
LineIndentedChooseSave ==
    <<" ", "U2022", " ", "choose", " ", "save", ".", " ">>
\* "---" and "- --"
LineRule == <<"-", "-", "-">>
LineDashRule == <<"-", " ", "-", "-">>
\* "Prerequisites:"
LinePrerequisites == <<"Prerequisites", ":">>
\* "<bullet> Choose a <arrow> b" and "-  choose a<tab><guillemet> b"
LineBulletChooseArrow ==
    <<"U2022", " ", "Choose", " ", "a", " ", "U2192", " ", "b">>
LineDashChooseArrow ==
    <<"-", " ", " ", "choose", " ", "a", "TAB", "U00BB", " ", "b">>
\* "note:<tab>b"
LineNoteTabB == <<"note", ":", "TAB", "b">>
\* "--  --" and "-- --"
LineTableSeparator == <<"-", "-", " ", " ", "-", "-">>
LineTableSeparatorNarrow == <<"-", "-", " ", "-", "-">>
\* "99...9. a", the step number having 4301 digits
LineLongStepA == <<LongDigitRun, ".", " ", "a">>
\* ".1)", which the step-number pattern does not match
LineMalformedStep == <<".", "1", ")">>

(***************************************************************************)
(* Spec: the diff engine.  Texts over lines of both severities whose keys  *)
(* sort against their severities, over numbered lines with the same key,   *)
(* and over a line, its cosmetic variant and a line that normalizes to the *)
(* empty string.                                                           *)
(***************************************************************************)
SeverityCatalog == {LineChooseSave, LineNoteB, LineStep1A}

NumberedCatalog == {LineStep1A, LineStep3A, LineChooseSave}

DuplicateCatalog == {LineChooseSave, LineBulletChooseSave, LineDash}

Init ==
    /\ \E catalog \in {SeverityCatalog, NumberedCatalog, DuplicateCatalog} :
          /\ old_text \in TextsUpTo(catalog, MaxLines)
          /\ new_text \in TextsUpTo(catalog, MaxLines - 1)
    /\ NotCalled

Spec == Init /\ [][Next]_vars

(***************************************************************************)
(* Claims about the diff engine and the aggregator.                        *)
(***************************************************************************)
\* C1: in every result, has_changes is true if and only if added or removed
\* is non-empty; structural warnings alone do not set it.
C1_HasChangesIffAddedOrRemoved ==
    Returned =>
        /\ result[1].has_changes
              <=> (result[1].added # <<>> \/ result[1].removed # <<>>)
        /\ (/\ result[1].structural_warnings # <<>>
            /\ result[1].added = <<>>
            /\ result[1].removed = <<>>) => ~ result[1].has_changes

\* C1, witness: a result with a structural warning and no entry, whose
\* has_changes is false ("1. a / 1. a" against "1. a / 3. a").
C1_StructuralOnlyResult ==
    /\ Returned
    /\ result[1].structural_warnings # <<>>
    /\ result[1].added = <<>>
    /\ result[1].removed = <<>>
    /\ ~ result[1].has_changes

\* the number of non-noise lines of text whose normalized form is k
LinesWithKey(text, k) ==
    Cardinality({i \in 1..Len(text) :
                    ~ IsNoise(text[i]) /\ NormalizeLine(text[i]) = k})

\* the normalized forms of the non-noise lines of both texts
KeysOfLines ==
    {NormalizeLine(old_text[i]) :
        i \in {j \in 1..Len(old_text) : ~ IsNoise(old_text[j])}}
    \cup
    {NormalizeLine(new_text[i]) :
        i \in {j \in 1..Len(new_text) : ~ IsNoise(new_text[j])}}

\* the number of entries of list for the key k
EntriesWithKey(list, k) ==
    Cardinality({i \in 1..Len(list) : NormalizeLine(list[i].text) = k})

Monus(a, b) == IF a > b THEN a - b ELSE 0

\* the count rule of C2 for the key k
CountRule(k) ==
    /\ EntriesWithKey(result[1].removed, k)
          = Monus(LinesWithKey(old_text, k), LinesWithKey(new_text, k))
    /\ EntriesWithKey(result[1].added, k)
          = Monus(LinesWithKey(new_text, k), LinesWithKey(old_text, k))

\* C2, as stated: for every normalized form k of a non-noise line, removed
\* holds max(0, old_count - new_count) entries for k and added holds
\* max(0, new_count - old_count).
C2_CountRuleEveryKey ==
    Returned => \A k \in KeysOfLines : CountRule(k)

\* C2, amended: the count rule holds for every non-empty normalized form k,
\* and every entry is an entry for such a key; non-noise lines whose
\* normalized form is empty (a lone bullet glyph) yield no entry.
C2_CountRuleNonEmptyKey ==
    Returned =>
        /\ \A k \in KeysOfLines \ {<<>>} : CountRule(k)
        /\ \A i \in 1..Len(result[1].removed) :
              NormalizeLine(result[1].removed[i].text) \in KeysOfLines \ {<<>>}
        /\ \A i \in 1..Len(result[1].added) :
              NormalizeLine(result[1].added[i].text) \in KeysOfLines \ {<<>>}

\* C2, witness: three copies of "Choose Save." against one give exactly two
\* removed entries with that text and no added entry.
C2_ThreeCopiesAgainstOne ==
    /\ old_text = <<LineChooseSave, LineChooseSave, LineChooseSave>>
    /\ new_text = <<LineChooseSave>>
    /\ Returned
    /\ Len(result[1].removed) = 2
    /\ result[1].removed[1].text = LineChooseSave
    /\ result[1].removed[2].text = LineChooseSave
    /\ result[1].added = <<>>

\* the severities of all entries and warnings of the result r
AllSeverities(r) ==
    {r.added[i].severity : i \in 1..Len(r.added)}
    \cup {r.removed[i].severity : i \in 1..Len(r.removed)}
    \cup {r.structural_warnings[i].severity :
             i \in 1..Len(r.structural_warnings)}

\* s1 is at least as severe as s2 under HIGH > MEDIUM > LOW
AtLeastAsSevere(s1, s2) ==
    \/ s1 = "HIGH"
    \/ s1 = "MEDIUM" /\ s2 \in {"MEDIUM", "LOW"}
    \/ s1 = "LOW" /\ s2 = "LOW"

\* C6: max_severity is the highest severity among the entries of added,
\* removed and structural_warnings, and None exactly when the three lists
\* are empty.
C6_MaxSeverityIsHighest ==
    Returned =>
        LET r == result[1]
        IN  /\ r.max_severity = "None" <=> AllSeverities(r) = {}
            /\ AllSeverities(r) # {} =>
                  /\ r.max_severity \in AllSeverities(r)
                  /\ \A s \in AllSeverities(r) :
                        AtLeastAsSevere(r.max_severity, s)

\* C6, witness: one HIGH removed entry and one MEDIUM added entry give
\* max_severity HIGH ("Choose Save." against "Note: b").
C6_HighRemovedMediumAdded ==
    /\ Returned
    /\ Len(result[1].removed) = 1
    /\ result[1].removed[1].severity = "HIGH"
    /\ Len(result[1].added) = 1
    /\ result[1].added[1].severity = "MEDIUM"
    /\ result[1].structural_warnings = <<>>
    /\ result[1].max_severity = "HIGH"

\* list is ordered by non-increasing severity
SeverityDescending(list) ==
    \A i, j \in 1..Len(list) :
        i < j => AtLeastAsSevere(list[i].severity, list[j].severity)

\* entries of equal severity are in ascending order of their normalized key
KeysAscending(list) ==
    \A i, j \in 1..Len(list) :
        (i < j /\ list[i].severity = list[j].severity) =>
            ~ StrLess(NormalizeLine(list[j].text), NormalizeLine(list[i].text))

\* C8: added, removed and structural_warnings are ordered by non-increasing
\* severity, and within added and within removed the entries of equal
\* severity are in ascending lexicographic order of their normalized key.
C8_OrderedBySeverityThenKey ==
    Returned =>
        /\ SeverityDescending(result[1].added)
        /\ SeverityDescending(result[1].removed)
        /\ SeverityDescending(result[1].structural_warnings)
        /\ KeysAscending(result[1].added)
        /\ KeysAscending(result[1].removed)

\* C8, witness: the lines "Note: b", "Choose Save.", "1. a" removed in that
\* input order come out as the HIGH entry first, then the MEDIUM entries
\* with key "a" before key "note: b".
C8_ReorderedRemovals ==
    /\ old_text = <<LineNoteB, LineChooseSave, LineStep1A>>
    /\ new_text = <<>>
    /\ Returned
    /\ Len(result[1].removed) = 3
    /\ result[1].removed[1].text = LineChooseSave
    /\ result[1].removed[1].severity = "HIGH"
    /\ result[1].removed[2].text = LineStep1A
    /\ result[1].removed[2].severity = "MEDIUM"
    /\ result[1].removed[3].text = LineNoteB
    /\ result[1].removed[3].severity = "MEDIUM"

(***************************************************************************)
(* SpecReflexive: compare(T, T), for texts with numbering gaps, procedural *)
(* lines without the Prerequisites and Procedure sections, prerequisite    *)
(* lines, and a step number that int() refuses.                            *)
(***************************************************************************)
ReflexiveCatalog ==
    {LineStep1ChooseA, LineStep3A, LineYouMustA, LineYouNeedB, LineLongStepA}

InitReflexive ==
    /\ old_text \in TextsUpTo(ReflexiveCatalog, MaxLines)
    /\ new_text = old_text
    /\ NotCalled

SpecReflexive == InitReflexive /\ [][Next]_vars

\* C3: a call compare(T, T) that returns has no added entry, no removed
\* entry, has_changes false and no structural warning.
C3_Reflexive ==
    (Returned /\ old_text = new_text) =>
        /\ ~ result[1].has_changes
        /\ result[1].added = <<>>
        /\ result[1].removed = <<>>
        /\ result[1].structural_warnings = <<>>

\* C3, witness: T = "1. Choose a / 3. a / You must a" has a numbering gap,
\* lacks both sections and holds a prerequisite line, and compare(T, T) is
\* empty.
C3_DefectiveTextAgainstItself ==
    /\ old_text = <<LineStep1ChooseA, LineStep3A, LineYouMustA>>
    /\ new_text = old_text
    /\ DetectNumberingGaps(old_text) # <<>>
    /\ Len(DetectMissingSections(old_text)) = 2
    /\ PrereqLines(old_text) # {}
    /\ Returned
    /\ ~ result[1].has_changes
    /\ result[1].structural_warnings = <<>>

(***************************************************************************)
(* SpecCosmetic: compare(T, T'), T' differing from T line by line only in  *)
(* the bullet glyph, the arrow glyphs, letter case and the length and kind *)
(* of the whitespace runs.                                                 *)
(***************************************************************************)
\* line with what a cosmetic change may alter made canonical: outer
\* whitespace dropped, a leading bullet glyph (one followed by whitespace)
\* and every arrow glyph replaced by one glyph of their class, letters
\* lowercased, every whitespace run replaced by one space
Skeleton(line) ==
    LET s == Strip(line)
        Canon(i) ==
            IF i = 1 /\ Len(s) >= 2 /\ s[1] \in BULLET_RE_Glyphs
                     /\ s[2] \in Whitespace
            THEN "U2022"
            ELSE IF s[i] \in ARROW_RE_Glyphs THEN "U2192"
            ELSE LowerChar(s[i])
    IN  CollapseWhitespace([i \in 1..Len(s) |-> Canon(i)])

CosmeticCatalog ==
    {LineBulletChooseArrow, LineDashChooseArrow, LineNoteB, LineNoteTabB,
     LineTableSeparator, LineTableSeparatorNarrow}

\* t2 is t1 up to cosmetic changes of its lines
CosmeticVariant(t1, t2) ==
    /\ Len(t1) = Len(t2)
    /\ \A i \in 1..Len(t1) : Skeleton(t1[i]) = Skeleton(t2[i])

InitCosmetic ==
    /\ old_text \in TextsUpTo(CosmeticCatalog, MaxLines)
    /\ new_text \in TextsUpTo(CosmeticCatalog, MaxLines)
    /\ CosmeticVariant(old_text, new_text)
    /\ NotCalled

SpecCosmetic == InitCosmetic /\ [][Next]_vars

\* C4: compare(T, T') has no added and no removed entry when T' is T up to
\* bullet glyphs, arrow glyphs, letter case and whitespace.
C4_CosmeticInvariance ==
    (Returned /\ CosmeticVariant(old_text, new_text)) =>
        /\ result[1].added = <<>>
        /\ result[1].removed = <<>>

(***************************************************************************)
(* SpecPrerequisites: texts with up to two different prerequisite lines.   *)
(***************************************************************************)
PrerequisiteCatalog == {LineYouMustA, LineYouNeedB, LineChooseSave}

InitPrerequisites ==
    /\ old_text \in TextsUpTo(PrerequisiteCatalog, MaxLines)
    /\ new_text \in TextsUpTo(PrerequisiteCatalog, MaxLines - 1)
    /\ NotCalled

SpecPrerequisites == InitPrerequisites /\ [][Next]_vars

\* C5: two calls of compare with the same texts return the same result,
\* the order of the entries of its lists included.
C5_Deterministic ==
    (Returned /\ previous # <<>>) => result = previous

(***************************************************************************)
(* SpecNumbers: texts with step numbers that are long, small or malformed, *)
(* and the empty text.                                                     *)
(***************************************************************************)
NumbersCatalog == {LineLongStepA, LineStep3A, LineMalformedStep}

InitNumbers ==
    /\ old_text \in TextsUpTo(NumbersCatalog, MaxLines)
    /\ new_text \in TextsUpTo(NumbersCatalog, MaxLines - 1)
    /\ NotCalled

SpecNumbers == InitNumbers /\ [][Next]_vars

\* C7: compare is total: no call raises an exception, every call returns a
\* result.
C7_Total ==
    /\ raised = <<>>
    /\ NotCalled \/ Returned

(***************************************************************************)
(* SpecStructure: the structural validator.  The old text is one of a few  *)
(* baselines (empty, gapless, with a gap, procedural with and without the  *)
(* Prerequisites header, with a prerequisite line); the new text ranges    *)
(* over numbered, procedural, header and prerequisite lines.               *)
(***************************************************************************)
StructureCatalog ==
    {LineStep1A, LineStep2B, LineStep3C, LineStep4C, LineChooseSave,
     LineYouMustA, LinePrerequisites}

StructureBaselines ==
    {<<>>,
     <<LineStep1A, LineStep2B, LineStep3C>>,
     <<LineStep1A, LineStep3C>>,
     <<LineChooseSave>>,
     <<LinePrerequisites, LineChooseSave>>,
     <<LineYouMustA, LineStep1A, LineStep4C>>}

InitStructure ==
    /\ old_text \in StructureBaselines
    /\ new_text \in TextsUpTo(StructureCatalog, MaxLines)
    /\ NotCalled

SpecStructure == InitStructure /\ [][Next]_vars

\* the lines of text with a step number, by index
NumberedLines(text) ==
    {i \in 1..Len(text) : STEP_NUMBER_RE_match(Strip(text[i])) # <<>>}

\* the step number of line i of text
NumberAt(text, i) == IntOf(STEP_NUMBER_RE_match(Strip(text[i])))

\* the numbered lines of text before line i
NumberedBefore(text, i) == {j \in NumberedLines(text) : j < i}

\* prev when line i of text is scanned: the number of the last numbered line
\* before it, which exists
PrevAt(text, i) ==
    NumberAt(text, CHOOSE j \in NumberedBefore(text, i) :
                       \A k \in NumberedBefore(text, i) : k <= j)

\* the warning C9 states for the missing step m between prev and n
StatedGapWarning(m, prev, n) ==
    [type |-> "NUMBERING_GAP", severity |-> "HIGH",
     message |-> <<"Step ", ToString(m),
                   " is missing (numbering jumps from ", ToString(prev),
                   " to ", ToString(n), ")">>]

\* what C9 has line i of text emit
StatedGapsAt(text, i) ==
    IF i \notin NumberedLines(text) THEN <<>>
    ELSE IF NumberAt(text, i) = 1 THEN <<>>
    ELSE IF NumberedBefore(text, i) = {} THEN <<>>
    ELSE IF NumberAt(text, i) <= PrevAt(text, i) + 1 THEN <<>>
    ELSE [k \in 1..(NumberAt(text, i) - PrevAt(text, i) - 1) |->
             StatedGapWarning(PrevAt(text, i) + k, PrevAt(text, i),
                              NumberAt(text, i))]

RECURSIVE StatedGapsFrom(_, _)
StatedGapsFrom(text, i) ==
    IF i > Len(text) THEN <<>>
    ELSE StatedGapsAt(text, i) \o StatedGapsFrom(text, i + 1)

\* C9: the numbering-gap detector emits, line by line, one HIGH
\* NUMBERING_GAP warning "Step m is missing (numbering jumps from prev to n)"
\* for each m strictly between prev and n when the line's number n is not 1,
\* prev is set and n > prev + 1, and nothing otherwise; prev is the number
\* of the last numbered line before it.
C9_NumberingGaps ==
    /\ DetectNumberingGaps(old_text) = StatedGapsFrom(old_text, 1)
    /\ DetectNumberingGaps(new_text) = StatedGapsFrom(new_text, 1)

\* C9, witness: "1. a / 2. b / 3. c" against "1. a / 2. b / 4. c" yields
\* exactly one warning, "Step 3 is missing (numbering jumps from 2 to 4)".
C9_Step3Missing ==
    /\ old_text = <<LineStep1A, LineStep2B, LineStep3C>>
    /\ new_text = <<LineStep1A, LineStep2B, LineStep4C>>
    /\ Returned
    /\ result[1].structural_warnings = <<StatedGapWarning(3, 2, 4)>>

\* the numbering-gap and missing-section warnings computed on text
GapAndSectionWarnings(text) ==
    DetectNumberingGaps(text) \o DetectMissingSections(text)

\* w is an element of list
Appears(w, list) == \E j \in 1..Len(list) : list[j] = w

\* C10: a NUMBERING_GAP or MISSING_SECTION warning computed on new_text is in
\* structural_warnings if and only if its message is the message of no such
\* warning computed on old_text; every MISSING_PREREQUISITE warning is in
\* structural_warnings.
C10_Suppression ==
    Returned =>
        LET old_w == GapAndSectionWarnings(old_text)
            new_w == GapAndSectionWarnings(new_text)
        IN  /\ \A i \in 1..Len(new_w) :
                  Appears(new_w[i], result[1].structural_warnings)
                  <=> (\A k \in 1..Len(old_w) :
                          old_w[k].message # new_w[i].message)
            /\ \A m \in MissingPrereqs(old_text, new_text) :
                  Appears(PrerequisiteWarning(m),
                          result[1].structural_warnings)

\* C10, witness: "You must a / 1. a / 4. c" against "1. a / 4. c /
\* Choose Save.": the two gap warnings of the new text are those of the old
\* text and are dropped, its two section warnings are new and are kept, and
\* the prerequisite warning is kept.
C10_SuppressedAndKept ==
    /\ old_text = <<LineYouMustA, LineStep1A, LineStep4C>>
    /\ new_text = <<LineStep1A, LineStep4C, LineChooseSave>>
    /\ Len(DetectNumberingGaps(new_text)) = 2
    /\ Returned
    /\ result[1].structural_warnings =
          <<SectionWarning("Prerequisites section"),
            SectionWarning("Procedure section"),
            PrerequisiteWarning(<<"you", " ", "must", " ", "a">>)>>

(***************************************************************************)
(* SpecPrerequisiteLines: the missing-prerequisite detector.  Texts over   *)
(* two prerequisite lines, a line with the key of the first that the       *)
(* classifier does not take for a prerequisite, and an instruction.        *)
(***************************************************************************)
PrerequisiteLineCatalog ==
    {LineYouMustA, LineYouNeedB, LineTriBulletYouMustA, LineChooseSave}

InitPrerequisiteLines ==
    /\ old_text \in TextsUpTo(PrerequisiteLineCatalog, MaxLines)
    /\ new_text \in TextsUpTo(PrerequisiteLineCatalog, MaxLines - 1)
    /\ NotCalled

SpecPrerequisiteLines == InitPrerequisiteLines /\ [][Next]_vars

\* the normalized forms of the prerequisite-classified lines of text
PrerequisiteValues(text) ==
    {v \in {NormalizeLine(text[i]) : i \in 1..Len(text)} :
        \E i \in 1..Len(text) :
            /\ ClassifyLine(text[i]) = "prerequisite"
            /\ NormalizeLine(text[i]) = v}

\* the warning C11 states for the normalized value v
StatedPrerequisiteWarning(v) ==
    [type |-> "MISSING_PREREQUISITE", severity |-> "HIGH",
     message |-> <<"Prerequisite removed: \"">> \o v \o <<"\"">>]

\* the MISSING_PREREQUISITE entries of a list of warnings
PrerequisiteWarningsOf(list) ==
    LET IsPrerequisiteWarning(w) == w.type = "MISSING_PREREQUISITE"
    IN  SelectSeq(list, IsPrerequisiteWarning)

\* C11: the MISSING_PREREQUISITE warnings of a result are exactly one HIGH
\* warning 'Prerequisite removed: "<v>"' for each normalized value v of a
\* prerequisite-classified line of old_text that is the normalized value of
\* no prerequisite-classified line of new_text, and no other.
C11_OneWarningPerMissingValue ==
    Returned =>
        LET emitted == PrerequisiteWarningsOf(result[1].structural_warnings)
            stated == PrerequisiteValues(old_text) \ PrerequisiteValues(new_text)
        IN  /\ \A v \in stated :
                  Cardinality({j \in 1..Len(emitted) :
                                  emitted[j] = StatedPrerequisiteWarning(v)}) = 1
            /\ \A j \in 1..Len(emitted) :
                  \E v \in stated : emitted[j] = StatedPrerequisiteWarning(v)

\* C11, witness: the old text has "You must a" twice and "- you need b";
\* the new text keeps the key "you must a" only on a line that is not a
\* prerequisite.  One warning for each of the two values.
C11_TwoValuesThreeLines ==
    /\ old_text = <<LineYouMustA, LineYouNeedB, LineYouMustA>>
    /\ new_text = <<LineTriBulletYouMustA>>
    /\ Returned
    /\ Len(PrerequisiteWarningsOf(result[1].structural_warnings)) = 2

(***************************************************************************)
(* SpecAdminAccess: the prerequisite "You must have admin access." among   *)
(* an instruction and a note.                                              *)
(***************************************************************************)
AdminAccessCatalog == {LineYouMustHaveAdminAccess, LineChooseSave, LineNoteB}

InitAdminAccess ==
    /\ old_text \in TextsUpTo(AdminAccessCatalog, MaxLines)
    /\ new_text \in TextsUpTo(AdminAccessCatalog, MaxLines - 1)
    /\ NotCalled

SpecAdminAccess == InitAdminAccess /\ [][Next]_vars

\* line is a line of text
HasLine(text, line) == \E i \in 1..Len(text) : text[i] = line

\* the result has exactly one MISSING_PREREQUISITE entry, and its message
\* quotes text
OnePrerequisiteWarningQuoting(text) ==
    PrerequisiteWarningsOf(result[1].structural_warnings) =
        <<[type |-> "MISSING_PREREQUISITE", severity |-> "HIGH",
           message |-> <<"Prerequisite removed: \"">> \o text \o <<"\"">>]>>

SectionCatalog ==
    {LineChooseSave, LineChoose, LineSelectA, LineSelectTabA,
     LinePrerequisites, LineProcedure}

InitSections ==
    /\ old_text \in TextsUpTo({LineChooseSave, LineProcedure}, MaxLines - 2)
    /\ new_text \in TextsUpTo(SectionCatalog, MaxLines)
    /\ NotCalled

SpecSections == InitSections /\ [][Next]_vars

\* the lowercased form of text, as one string: its lines joined by "\n"
RECURSIVE LoweredFrom(_, _)
LoweredFrom(text, i) ==
    IF i > Len(text) THEN <<>>
    ELSE Lower(text[i]) \o (IF i < Len(text) THEN <<"\n">> ELSE <<>>)
         \o LoweredFrom(text, i + 1)

\* sub is a substring of str
IsSubstring(sub, str) ==
    \E k \in 0..(Len(str) - Len(sub)) : SubSeq(str, k + 1, k + Len(sub)) = sub

\* the warning C13 states for a section label
StatedSectionWarning(label) ==
    [type |-> "MISSING_SECTION", severity |-> "HIGH",
     message |-> <<label, " may be missing from the document">>]

\* what C13 has the detector emit for text
StatedSections(text) ==
    LET lowered == LoweredFrom(text, 1)
    IN  IF /\ ~ IsSubstring(<<"choose", " ">>, lowered)
           /\ ~ IsSubstring(<<"select", " ">>, lowered)
           /\ ~ IsSubstring(<<"navigate", " ">>, lowered)
        THEN <<>>
        ELSE (IF IsSubstring(<<"prerequisites">>, lowered) THEN <<>>
              ELSE <<StatedSectionWarning("Prerequisites section")>>)
             \o
             (IF IsSubstring(<<"procedure">>, lowered) THEN <<>>
              ELSE <<StatedSectionWarning("Procedure section")>>)

\* the MISSING_SECTION entries of a list of warnings
SectionWarningsOf(list) ==
    LET IsSectionWarning(w) == w.type = "MISSING_SECTION"
    IN  SelectSeq(list, IsSectionWarning)

\* C13: the missing-section detector emits nothing for a text whose
\* lowercased form contains none of "choose ", "select ", "navigate ";
\* otherwise the Prerequisites warning iff "prerequisites" is not a
\* substring and the Procedure warning iff "procedure" is not, in that
\* order.  Against an empty old text these are the MISSING_SECTION entries
\* of the result.
C13_MissingSections ==
    /\ DetectMissingSections(old_text) = StatedSections(old_text)
    /\ DetectMissingSections(new_text) = StatedSections(new_text)
    /\ (Returned /\ old_text = <<>>) =>
           SectionWarningsOf(result[1].structural_warnings)
               = StatedSections(new_text)

\* C13, witness: against the empty text, "select a / Prerequisites:"
\* returned the Procedure warning alone.
C13_ProcedureSectionMissing ==
    /\ old_text = <<>>
    /\ new_text = <<LineSelectA, LinePrerequisites>>
    /\ Returned
    /\ result[1].structural_warnings =
           <<StatedSectionWarning("Procedure section")>>

(***************************************************************************)
(* SpecClassify: the classifier and the severity table.  The new text      *)
(* ranges over a line for each rule of the priority chain: two noise       *)
(* lines, both kinds of section header, an instruction, a prerequisite     *)
(* behind a dash and one behind a triangular bullet, a note and plain      *)
(* content.                                                                *)
(***************************************************************************)
ClassifyCatalog ==
    {LineDash, LineTableSeparator, LinePrerequisites, LineStepsInA,
     LineChooseSave, LineYouNeedB, LineTriBulletYouMustA, LineNoteB,
     LineStep1A}

InitClassify ==
    /\ old_text \in TextsUpTo({LineYouMustA}, MaxLines - 2)
    /\ new_text \in TextsUpTo(ClassifyCatalog, MaxLines - 1)
    /\ NotCalled

SpecClassify == InitClassify /\ [][Next]_vars

\* the entries of both lists of the result r
ChangeEntries(r) == Range(r.added) \cup Range(r.removed)

\* the priority chain of C14, rule 5 stripping the bullet as the normalizer
\* does
StatedCategory(line) ==
    LET norm == NormalizeLine(line)
        token == FirstWord(norm)
        unbulleted == Lower(BULLET_RE_sub(Strip(line)))
    IN  IF IsNoise(line) \/ norm = <<>> THEN "noise"
        ELSE IF Strip(RStrip(norm, {":"})) \in SECTION_KEYWORDS
             THEN "section_header"
        ELSE IF \/ StartsWith(norm, <<"steps", " ", "in">>)
                \/ StartsWith(norm, <<"steps", " ", "for">>)
             THEN "section_header"
        ELSE IF Len(token) = 1 /\ token[1] \in ACTION_VERBS THEN "instruction"
        ELSE IF \E p \in {<<"you've">>, <<"you're">>, <<"you", " ", "need">>,
                          <<"you", " ", "must">>, <<"you", " ", "have">>,
                          <<"you", " ", "should">>} :
                    StartsWith(unbulleted, p)
             THEN "prerequisite"
        ELSE IF \/ StartsWith(norm, <<"note", ":">>)
                \/ StartsWith(norm, <<"note", " ">>)
                \/ norm = <<"note">>
             THEN "note"
        ELSE "content"

\* C14: classify follows the priority chain noise, section_header (keyword,
\* then "steps in"/"steps for"), instruction, prerequisite, note, content,
\* first match winning, rule 5 stripping the bullet glyphs the normalizer
\* strips: for every line of the texts, and for the line of every entry of
\* a result.
C14_PriorityChain ==
    Returned =>
        /\ \A line \in Range(old_text) \cup Range(new_text) :
              ClassifyLine(line) = StatedCategory(line)
        /\ \A e \in ChangeEntries(result[1]) :
              e.category = StatedCategory(e.text)

\* C15: no entry of added or removed has category noise; every entry has one
\* of the categories section_header, instruction, prerequisite, note,
\* content.
C15_NoNoiseEntry ==
    Returned =>
        \A e \in ChangeEntries(result[1]) :
            e.category \in {"section_header", "instruction", "prerequisite",
                            "note", "content"}

\* C15, witness: the new text is a table separator row and a lone dash, both
\* dropped, around nothing else but a note: one entry, the note.
C15_NoiseLinesDropped ==
    /\ old_text = <<>>
    /\ new_text \in {<<LineTableSeparator, LineNoteB>>, <<LineDash, LineNoteB>>}
    /\ Returned
    /\ Len(result[1].added) = 1
    /\ result[1].added[1].category = "note"

\* the severity table of C16
StatedSeverity(category) ==
    CASE category \in {"instruction", "section_header", "prerequisite"} -> "HIGH"
      [] category \in {"note", "content"} -> "MEDIUM"
      [] OTHER -> "none"

\* C16: every entry of added and removed has the severity of the table for
\* its own category: HIGH for instruction, section_header and prerequisite,
\* MEDIUM for note and content.
C16_SeverityOfCategory ==
    Returned =>
        \A e \in ChangeEntries(result[1]) :
            e.severity = StatedSeverity(e.category)

\* C16, witness: a result with a HIGH section header and a MEDIUM note among
\* its added entries, and a HIGH prerequisite removed.
C16_HighAndMediumEntries ==
    /\ old_text = <<LineYouMustA>>
    /\ new_text = <<LineNoteB, LinePrerequisites>>
    /\ Returned
    /\ result[1].removed =
           <<[text |-> LineYouMustA, severity |-> "HIGH",
              category |-> "prerequisite"]>>
    /\ result[1].added =
           <<[text |-> LinePrerequisites, severity |-> "HIGH",
              category |-> "section_header"],
             [text |-> LineNoteB, severity |-> "MEDIUM", category |-> "note"]>>

(***************************************************************************)
(* SpecWorkers: two workers call compare concurrently, each on its own     *)
(* pair of texts over an instruction and a prerequisite.                   *)
(***************************************************************************)
WorkerTexts == TextsUpTo({LineChooseSave, LineYouMustA}, MaxLines - 2)

InitWorkers ==
    /\ old_text = <<>>
    /\ new_text = <<>>
    /\ result = <<>>
    /\ raised = <<>>
    /\ previous = <<>>
    /\ WorkersIdle
    /\ MonitorIdle
    /\ StoreIdle
    /\ KeyIdle
    /\ FetchIdle
    /\ args \in [Workers -> [old_text : WorkerTexts, new_text : WorkerTexts]]

SpecWorkers == InitWorkers /\ [][NextWorkers]_vars

\* the results compare can return for worker w's arguments when run alone
AloneResults(w) ==
    {Compare(args[w].old_text, args[w].new_text, iter) :
        iter \in IterationOrders(
                     MissingPrereqs(args[w].old_text, args[w].new_text))}

\* C17: under every interleaving of the steps of concurrent calls, a call
\* that has returned holds exactly a result it returns when run alone on
\* its arguments, whatever the other calls did before or after; and the
\* module-level tables are never modified.
C17_CallsIsolated ==
    /\ module_tables = ModuleTables
    /\ \A w \in Workers :
          /\ pc[w] = "returned" =>
                /\ returns[w] # <<>>
                /\ returns[w][1] \in AloneResults(w)
          /\ pc[w] # "returned" => returns[w] = <<>>

\* C17, witness: worker w1 has returned the removal of "Choose Save." while
\* worker w2, on other arguments, is between its two scans.
C17_ReturnedWhileOtherRuns ==
    /\ args["w1"] = [old_text |-> <<LineChooseSave>>, new_text |-> <<>>]
    /\ args["w2"] = [old_text |-> <<LineYouMustA>>,
                     new_text |-> <<LineChooseSave>>]
    /\ pc["w1"] = "returned"
    /\ pc["w2"] = "scanned_old"
    /\ Len(returns["w1"][1].removed) = 1

(***************************************************************************)
(* Fail-local parsing, under SpecNumbers.                                  *)
(***************************************************************************)
\* the lines of text whose step number, if any, int() converts
ParsableLines(text) ==
    LET Converts(line) ==
            LET m == STEP_NUMBER_RE_match(Strip(line))
            IN  m = <<>> \/ ~ IntRaises(m)
    IN  SelectSeq(text, Converts)

\* the NUMBERING_GAP entries of a list of warnings
GapWarningsOf(list) ==
    LET IsGapWarning(w) == w.type = "NUMBERING_GAP"
    IN  SelectSeq(list, IsGapWarning)

\* C18: a line that matches the step-number pattern but whose number cannot
\* be converted is skipped by the numbering-gap detector, alone: the call
\* returns, and the gap warnings of its result are those of the other lines
\* (the ones the old text already had being dropped).
C18_FailLocal ==
    (raised # <<>> \/ Returned) =>
        /\ Returned
        /\ LET old_gaps == DetectNumberingGaps(ParsableLines(old_text))
               new_gaps == DetectNumberingGaps(ParsableLines(new_text))
               NewOnly(w) == \A k \in 1..Len(old_gaps) :
                                 old_gaps[k].message # w.message
           IN  GapWarningsOf(result[1].structural_warnings)
                   = SelectSeq(new_gaps, NewOnly)

(***************************************************************************)
(* SpecMonitor: a monitoring run over a page list of up to MaxPages        *)
(* entries.  Two entries of a discovered list can have the same title.     *)
(* The site serves a long instruction page, a page of exactly the minimum  *)
(* length and a page one character short of it, or the fetch fails; the    *)
(* previous snapshots hold a long page or nothing for each name.           *)
(***************************************************************************)
MaxPages == 2

\* "x...x", 99 and 100 letters
LineLetters99 == <<"x*99">>
LineLetters100 == <<"x*100">>

ServedTexts ==
    {<<LineChooseSave, LineLetters100>>, <<LineLetters100>>, <<LineLetters99>>}

SnapshotTexts == {<<LineNoteB, LineLetters100>>}

\* the fetch of the next page of the list, from the site of the model
FetchNextPage == FetchPage(ServedTexts)

NextMonitor ==
    \/ FetchNextPage
    \/ SkipPage
    \/ ReportNewPage
    \/ ComparePage

InitMonitor ==
    /\ old_text = <<>>
    /\ new_text = <<>>
    /\ result = <<>>
    /\ raised = <<>>
    /\ previous = <<>>
    /\ WorkersIdle
    /\ args = [w \in Workers |-> [old_text |-> <<>>, new_text |-> <<>>]]
    /\ phase = "fetch"
    /\ page_list \in UNION {[1..n -> PageNames] : n \in 1..MaxPages}
    /\ page_index = 1
    /\ fetch_results = <<>>
    /\ current_content = [n \in PageNames |-> <<>>]
    /\ previous_snapshots \in
          {p \in [SnapshotKeys -> {<<>>} \cup {<<t>> : t \in SnapshotTexts}] :
              \A k \in SnapshotKeys \ LoadableKeys : p[k] = <<>>}
    /\ all_changes = <<>>
    /\ compare_calls = <<>>
    /\ StoreIdle
    /\ KeyIdle
    /\ FetchIdle

SpecMonitor == InitMonitor /\ [][NextMonitor]_vars

\* the fetch of entry i of the page list failed, or its text was too short
FetchFailedOrShort(i) ==
    \/ fetch_results[i].error \in {"RuntimeError", "Exception"}
    \/ StrippedLength(fetch_results[i].text) < 100

\* C19: in a monitoring run compare is never called for an entry of the page
\* list whose fetch failed or whose extracted text is shorter than 100
\* characters.
C19_NoCompareAfterFailedFetch ==
    \A k \in 1..Len(compare_calls) : ~ FetchFailedOrShort(compare_calls[k])

(***************************************************************************)
(* SpecRepresentative: the line that stands for a key.  Texts over lines   *)
(* that share a key and differ in raw form and in category, one of them    *)
(* with spaces at both ends; and texts over a separator rule and a line    *)
(* that is not noise and has the rule's normalized form.                   *)
(***************************************************************************)
SharedKeyCatalog ==
    {LineYouMustA, LineTriBulletYouMustA, LineIndentedChooseSave,
     LineChooseSave}

RuleCatalog == {LineRule, LineDashRule, LineChooseSave}

InitRepresentative ==
    /\ \E catalog \in {SharedKeyCatalog, RuleCatalog} :
          /\ old_text \in TextsUpTo(catalog, MaxLines)
          /\ new_text \in TextsUpTo(catalog, MaxLines - 1)
    /\ NotCalled

SpecRepresentative == InitRepresentative /\ [][Next]_vars

\* the first of the lines of text at the places in where whose normalized
\* form is k; <<>> when there is none
FirstWithKey(text, where, k) ==
    LET S == {i \in where : NormalizeLine(text[i]) = k}
    IN  IF S = {} THEN <<>>
        ELSE text[CHOOSE i \in S : \A j \in S : i <= j]

\* entry e stands for the line: its text is the line stripped, its category
\* the classification of the line
StandsFor(e, line) ==
    /\ e.text = Strip(line)
    /\ e.category = ClassifyLine(line)

\* the places of all lines of text, and of its lines that are not noise
AllLines(text) == 1..Len(text)

NonNoiseLines(text) == {i \in 1..Len(text) : ~ IsNoise(text[i])}

\* C20, as stated: every removed entry stands for the first line of
\* old_text whose normalized form is the entry's key, every added entry for
\* the first such line of new_text.
C20_FirstLineOfKey ==
    Returned =>
        /\ \A e \in Range(result[1].removed) :
              StandsFor(e, FirstWithKey(old_text, AllLines(old_text),
                                        NormalizeLine(e.text)))
        /\ \A e \in Range(result[1].added) :
              StandsFor(e, FirstWithKey(new_text, AllLines(new_text),
                                        NormalizeLine(e.text)))

\* C20, amended: every removed entry stands for the first line of old_text
\* that is not noise and whose normalized form is the entry's key, every
\* added entry for the first such line of new_text.
C20_FirstNonNoiseLineOfKey ==
    Returned =>
        /\ \A e \in Range(result[1].removed) :
              StandsFor(e, FirstWithKey(old_text, NonNoiseLines(old_text),
                                        NormalizeLine(e.text)))
        /\ \A e \in Range(result[1].added) :
              StandsFor(e, FirstWithKey(new_text, NonNoiseLines(new_text),
                                        NormalizeLine(e.text)))

\* C20, witness: the old text has the key "you must a" three times, first
\* behind a triangular bullet (content), then twice as a prerequisite; the
\* new text has it once, as a prerequisite.  Both removed entries carry the
\* first line and its category.
C20_FirstOccurrenceStands ==
    /\ old_text = <<LineTriBulletYouMustA, LineYouMustA, LineYouMustA>>
    /\ new_text = <<LineYouMustA>>
    /\ Returned
    /\ result[1].removed =
           <<[text |-> LineTriBulletYouMustA, severity |-> "MEDIUM",
              category |-> "content"],
             [text |-> LineTriBulletYouMustA, severity |-> "MEDIUM",
              category |-> "content"]>>

(***************************************************************************)
(* SpecRuns: MaxRuns monitoring runs in a row over one page list.  The     *)
(* snapshot directory of the first run is what an earlier run over some    *)
(* page list left.  A snapshot is a page of two numbered steps, 409        *)
(* characters long; the site serves its first step alone (104 characters), *)
(* or the page with its second step renumbered from 2 to 3, or the fetch   *)
(* fails.                                                                  *)
(***************************************************************************)
MaxRuns == 2

\* "1. x...x" (100 letters), "2. y...y" and "3. y...y" (300 letters)
LineStep1Letters == <<"1", ".", " ", "x*100">>
LineStep2Long == <<"2", ".", " ", "y*300">>
LineStep3Long == <<"3", ".", " ", "y*300">>

RunSnapshotText == <<LineStep1Letters, LineStep2Long>>

RunServedTexts ==
    {<<LineStep1Letters>>, <<LineStep1Letters, LineStep3Long>>}

\* the page lists of at most n entries
PageLists(n) == UNION {[1..k -> PageNames] : k \in 0..n}

\* the directory a run over the page list earlier left, texts[i] being the
\* snapshot it saved for entry i, <<>> when it saved none
DirectoryOf(earlier, texts) ==
    LET saved == {i \in 1..Len(earlier) : texts[i] # <<>>}
        FileOf(i) == SnapshotFileName(earlier[i], Str(i))
    IN  [f \in {FileOf(i) : i \in saved} |->
            texts[CHOOSE i \in saved : FileOf(i) = f]]

InitialDirectories ==
    {DirectoryOf(earlier, texts) :
        earlier \in PageLists(MaxPages),
        texts \in [1..MaxPages -> {<<>>, <<RunSnapshotText>>}]}

FetchRunPage == FetchPage(RunServedTexts)

NextRun == StartRun(MaxRuns)

NextRuns ==
    \/ FetchRunPage
    \/ SkipPage
    \/ ReportNewPage
    \/ ComparePage
    \/ DetectRemovedPages
    \/ SaveSnapshots
    \/ NextRun

InitRuns ==
    /\ old_text = <<>>
    /\ new_text = <<>>
    /\ result = <<>>
    /\ raised = <<>>
    /\ previous = <<>>
    /\ WorkersIdle
    /\ args = [w \in Workers |-> [old_text |-> <<>>, new_text |-> <<>>]]
    /\ KeyIdle
    /\ FetchIdle
    /\ phase = "fetch"
    /\ page_list \in PageLists(MaxPages) \ {<<>>}
    /\ page_index = 1
    /\ fetch_results = <<>>
    /\ current_content = [n \in PageNames |-> <<>>]
    /\ all_changes = <<>>
    /\ compare_calls = <<>>
    /\ run_number = 1
    /\ reports = <<>>
    /\ snapshot_files \in InitialDirectories
    /\ previous_snapshots \in LoadedSnapshots(snapshot_files)

SpecRuns == InitRuns /\ [][NextRuns]_vars

\* the change dicts of the list that report the page page_name as modified
ModifiedEntries(list, page_name) ==
    {k \in 1..Len(list) :
        /\ list[k].page_name = page_name
        /\ "added" \in DOMAIN list[k]}

\* entry i of the page list was fetched, has a previous snapshot, and its
\* text is more than 70% shorter than the snapshot with nothing added
SuspiciousShrinkage(i) ==
    LET name == page_list[i]
        snapshot == previous_snapshots[normalize_page_name(name)]
    IN  /\ current_content[name] # <<>>
        /\ snapshot # <<>>
        /\ 10 * (StrippedLength(snapshot[1])
                 - StrippedLength(current_content[name][1]))
               > 7 * StrippedLength(snapshot[1])
        /\ ~ CompareRaises(snapshot[1], current_content[name][1])
        /\ Compare(snapshot[1], current_content[name][1], <<>>).added = <<>>

\* C21: when a page's new text is more than 70% shorter than its previous
\* snapshot and the comparison yields no addition, the run does not report
\* the page as modified, and after the save phase the page's snapshot file
\* still holds the previous snapshot.
C21_ShrinkageKeepsSnapshot ==
    phase = "saved" =>
        \A i \in 1..Len(page_list) :
            SuspiciousShrinkage(i) =>
                /\ ModifiedEntries(all_changes, page_list[i]) = {}
                /\ LET norm == normalize_page_name(page_list[i])
                   IN  /\ FilesWithKey(snapshot_files, norm) # {}
                       /\ \A f \in FilesWithKey(snapshot_files, norm) :
                              snapshot_files[f] = previous_snapshots[norm]

\* C22: after the save phase, every page of the list whose fetch failed in
\* this run and that had a previous snapshot under its normalized name has
\* a snapshot file whose content is that previous snapshot.
C22_FailedFetchKeepsSnapshot ==
    phase = "saved" =>
        \A i \in 1..Len(page_list) :
            LET norm == normalize_page_name(page_list[i])
                f == SnapshotFileName(page_list[i], Str(i))
            IN  FetchFailedOrShort(i) /\ previous_snapshots[norm] # <<>> =>
                    /\ f \in DOMAIN snapshot_files
                    /\ snapshot_files[f] = previous_snapshots[norm]

\* the change dicts of the list that report a removed page under the name
\* display_name
RemovedEntries(list, display_name) ==
    {k \in 1..Len(list) :
        /\ "is_removed_page" \in DOMAIN list[k]
        /\ list[k].page_name = display_name}

\* C25: once the removed pages are detected, every previous snapshot whose
\* key is the normalized name of no listed page has exactly one removed-page
\* entry in the run's changes; and no page reported as removed by a run is
\* reported as removed again by the next run over the same page list.
C25_RemovedPageReportedOnce ==
    phase \in {"save", "saved"} =>
        /\ \A k \in RemovedKeys :
               Cardinality(RemovedEntries(all_changes, Title(k))) = 1
        /\ run_number > 1 =>
               \A j \in 1..Len(all_changes) :
                   "is_removed_page" \in DOMAIN all_changes[j] =>
                       RemovedEntries(reports[run_number - 1],
                                      all_changes[j].page_name) = {}

(***************************************************************************)
(* SpecSnapshotKey: a snapshot is named by sanitize_filename and its key   *)
(* is read back by extract_page_name_from_filename.  The page names are    *)
(* the strings of at most MaxNameLength characters over words, a space, an *)
(* underscore, a colon, a slash, a digit and a run of 100 letters; the     *)
(* page numbers are those of a flat and of a nested table of contents, or  *)
(* none.                                                                   *)
(***************************************************************************)
MaxNameLength == 3

NameAlphabet == {"Overview", "Setup", " ", "_", ":", "/", "1", "x*100"}

NamesUpTo(n) == UNION {[1..k -> NameAlphabet] : k \in 1..n}

PageNumbers == {<<"1">>, <<"1", "2">>, <<"9", ".", "1">>}

\* the snapshot of the page is named
NameSnapshot ==
    /\ key_file = <<>>
    /\ key_file' = <<SnapshotFileName(key_name, key_number)>>
    /\ UNCHANGED <<key_name, key_number, key_loaded>>
    /\ UNCHANGED <<callVars, workerVars, monitorVars, storeVars, fetchVars>>

\* the key of the snapshot is read back from its file name
LoadSnapshotKey ==
    /\ key_file # <<>>
    /\ key_loaded = <<>>
    /\ key_loaded' = <<extract_page_name_from_filename(key_file[1])>>
    /\ UNCHANGED <<key_name, key_number, key_file>>
    /\ UNCHANGED <<callVars, workerVars, monitorVars, storeVars, fetchVars>>

NextSnapshotKey ==
    \/ NameSnapshot
    \/ LoadSnapshotKey

InitSnapshotKey ==
    /\ old_text = <<>>
    /\ new_text = <<>>
    /\ result = <<>>
    /\ raised = <<>>
    /\ previous = <<>>
    /\ WorkersIdle
    /\ args = [w \in Workers |-> [old_text |-> <<>>, new_text |-> <<>>]]
    /\ MonitorIdle
    /\ StoreIdle
    /\ FetchIdle
    /\ key_name \in NamesUpTo(MaxNameLength)
    /\ key_number \in PageNumbers \cup {NoNumber}
    /\ key_file = <<>>
    /\ key_loaded = <<>>

SpecSnapshotKey == InitSnapshotKey /\ [][NextSnapshotKey]_vars

\* C26: the key read back from the file name of a page's snapshot is the
\* normalized page name, for every page name and page number.
C26_KeyRoundTrip ==
    key_loaded # <<>> => key_loaded[1] = normalize_page_name(key_name)

(***************************************************************************)
(* SpecFetch: one call of fetch_page, with a URL of the SAP Help Portal or *)
(* another one and max_retries up to MaxRetries.  The site serves a blank  *)
(* document, an error page, a page with 99 characters of visible text and  *)
(* one with 100; a request or a Selenium attempt can also raise.  A call   *)
(* that has started goes on: every attempt ends, by its time-outs.         *)
(***************************************************************************)
MaxRetries == 3

HtmlDocuments ==
    {[none |-> FALSE, blank |-> TRUE, marker |-> FALSE, visible |-> 0],
     [none |-> FALSE, blank |-> FALSE, marker |-> TRUE, visible |-> 100],
     [none |-> FALSE, blank |-> FALSE, marker |-> FALSE, visible |-> 99],
     [none |-> FALSE, blank |-> FALSE, marker |-> FALSE, visible |-> 100]}

BlankDocument ==
    [none |-> FALSE, blank |-> TRUE, marker |-> FALSE, visible |-> 0]

\* requests.get raised, or returned a response
HttpResponses ==
    {[raised |-> TRUE, status_code |-> 0, content_type |-> "",
      text |-> BlankDocument]}
    \cup [raised : {FALSE}, status_code : {200, 404},
          content_type : {"text/html", "application/json"},
          text : HtmlDocuments]

\* _fetch_with_selenium raised, or returned the page source
SeleniumOutcomes ==
    {[raised |-> TRUE, html |-> BlankDocument]}
    \cup [raised : {FALSE}, html : HtmlDocuments]

RequestPage == HttpGet(HttpResponses)

RenderPage == SeleniumAttempt(SeleniumOutcomes)

NextFetch ==
    \/ RequestPage
    \/ UseSelenium
    \/ RenderPage
    \/ RaiseRuntimeError

InitFetch ==
    /\ old_text = <<>>
    /\ new_text = <<>>
    /\ result = <<>>
    /\ raised = <<>>
    /\ previous = <<>>
    /\ WorkersIdle
    /\ args = [w \in Workers |-> [old_text |-> <<>>, new_text |-> <<>>]]
    /\ MonitorIdle
    /\ StoreIdle
    /\ KeyIdle
    /\ url \in {"help.sap.com", "example.com"}
    /\ max_retries \in 0..MaxRetries
    /\ fetch_pc = "start"
    /\ attempt = 0
    /\ attempts = <<>>
    /\ sleeps = <<>>
    /\ http = <<>>
    /\ fetched = <<>>

SpecFetch == InitFetch /\ [][NextFetch]_vars /\ WF_vars(NextFetch)

\* C23: the HTML fetch_page returns has passed validate_content, on every
\* path.
C23_ReturnsValidatedOnly ==
    fetch_pc = "returned" => validate_content(fetched[1])

\* the call has ended
FetchEnded == fetch_pc \in {"returned", "raised"}

\* the call returned the response of the simple HTTP request
ReturnedByHttp == fetch_pc = "returned" /\ attempts = <<>>

\* the Selenium attempts before the last one all failed
EarlierAttemptsFailed ==
    \A k \in 1..(Len(attempts) - 1) : ~ AttemptValid(attempts[k])

\* C24: on the Selenium path fetch_page makes at most max_retries attempts;
\* it returns at the first attempt whose HTML validates, with that HTML and
\* without a further attempt; it has slept after each attempt but the last
\* one and never after the last; it raises RuntimeError exactly when
\* max_retries attempts were made and all failed; and every call ends.
C24_RetryLoop ==
    /\ [](/\ Len(attempts) <= max_retries
          /\ EarlierAttemptsFailed
          /\ (fetch_pc = "returned" /\ attempts # <<>> =>
                 /\ AttemptValid(attempts[Len(attempts)])
                 /\ fetched = <<attempts[Len(attempts)].html>>)
          /\ (FetchEnded =>
                 sleeps = [k \in 1..(Len(attempts) - 1) |-> 2 ^ k])
          /\ (fetch_pc = "raised" =>
                 /\ Len(attempts) = max_retries
                 /\ \A k \in 1..Len(attempts) : ~ AttemptValid(attempts[k]))
          /\ (/\ FetchEnded
              /\ ~ ReturnedByHttp
              /\ Len(attempts) = max_retries
              /\ \A k \in 1..Len(attempts) : ~ AttemptValid(attempts[k])
              => fetch_pc = "raised"))
    /\ <>FetchEnded

\* the third attempt failed after two failed attempts, one by an exception
\* and one by validation, and RuntimeError was raised after two waits
C24_ThreeFailedAttempts ==
    /\ fetch_pc = "raised"
    /\ Len(attempts) = 3
    /\ attempts[1].raised
    /\ ~ attempts[2].raised
    /\ sleeps = <<2, 4>>

(***************************************************************************)
(* SpecBullets: texts of bulleted lines, the new text being the old one    *)
(* with some of its leading bullet glyphs replaced by other glyphs of the  *)
(* bullet pattern.                                                         *)
(***************************************************************************)
\* "<bullet> You must a", "* you need b", "<white bullet> choose  save."
LineBulletYouMustA == <<"U2022", " ", "You", " ", "must", " ", "a">>
LineStarYouNeedB == <<"*", " ", "you", " ", "need", " ", "b">>
LineRingChooseSave == <<"U25E6", " ", "choose", " ", " ", "save", ".">>

BulletCatalog ==
    {LineBulletYouMustA, LineTriBulletYouMustA, LineYouNeedB,
     LineStarYouNeedB, LineBulletChooseSave, LineRingChooseSave}

\* the line starts with a bullet glyph and white space
Bulleted(line) ==
    /\ Len(line) >= 2
    /\ line[1] \in BULLET_RE_Glyphs
    /\ line[2] \in Whitespace

\* t2 is t1 with leading bullet glyphs replaced by bullet glyphs
BulletVariant(t1, t2) ==
    /\ Len(t1) = Len(t2)
    /\ \A i \in 1..Len(t1) :
          \/ t1[i] = t2[i]
          \/ /\ Bulleted(t1[i])
             /\ Bulleted(t2[i])
             /\ Tail(t1[i]) = Tail(t2[i])

InitBullets ==
    /\ old_text \in TextsUpTo(BulletCatalog, MaxLines)
    /\ new_text \in TextsUpTo(BulletCatalog, MaxLines)
    /\ BulletVariant(old_text, new_text)
    /\ NotCalled

SpecBullets == InitBullets /\ [][Next]_vars

\* C27: compare(T, T') has no structural warning when T' is T with leading
\* bullet glyphs replaced by other glyphs of the bullet pattern.
C27_BulletGlyphsNoWarning ==
    (Returned /\ BulletVariant(old_text, new_text)) =>
        result[1].structural_warnings = <<>>

(***************************************************************************)
(* SpecReport: the report of one monitoring run, up to the detection of    *)
(* the removed pages, over the snapshots and the served texts of SpecRuns. *)
(***************************************************************************)
NextReport ==
    \/ FetchRunPage
    \/ SkipPage
    \/ ReportNewPage
    \/ ComparePage
    \/ DetectRemovedPages

InitReport ==
    /\ old_text = <<>>
    /\ new_text = <<>>
    /\ result = <<>>
    /\ raised = <<>>
    /\ previous = <<>>
    /\ WorkersIdle
    /\ args = [w \in Workers |-> [old_text |-> <<>>, new_text |-> <<>>]]
    /\ StoreIdle
    /\ KeyIdle
    /\ FetchIdle
    /\ phase = "fetch"
    /\ page_list \in PageLists(MaxPages) \ {<<>>}
    /\ page_index = 1
    /\ fetch_results = <<>>
    /\ current_content = [n \in PageNames |-> <<>>]
    /\ previous_snapshots \in
          {p \in [SnapshotKeys -> {<<>>, <<RunSnapshotText>>}] :
              \A k \in SnapshotKeys \ LoadableKeys : p[k] = <<>>}
    /\ all_changes = <<>>
    /\ compare_calls = <<>>

SpecReport == InitReport /\ [][NextReport]_vars

\* the result of the comparison made for entry i of the page list
ComparisonOf(i) ==
    Compare(previous_snapshots[normalize_page_name(page_list[i])][1],
            current_content[page_list[i]][1], <<>>)

\* C28: every page reported as modified has an addition or a removal, and
\* a page whose comparison found no addition and no removal has no entry
\* in the changes of the run, whatever its structural warnings.
C28_StructuralOnlyUnreported ==
    /\ \A k \in 1..Len(all_changes) :
          "added" \in DOMAIN all_changes[k] =>
              all_changes[k].added # <<>> \/ all_changes[k].removed # <<>>
    /\ \A k \in 1..Len(compare_calls) :
          ~ ComparisonOf(compare_calls[k]).has_changes =>
              ModifiedEntries(all_changes, page_list[compare_calls[k]]) = {}

\* the run compared a page whose step 2 was renumbered to 3: a numbering
\* gap and nothing added or removed, and the report is empty
C28_RenumberedPageCompared ==
    /\ phase = "save"
    /\ Len(page_list) = 1
    /\ compare_calls = <<1>>
    /\ ComparisonOf(1).structural_warnings # <<>>
    /\ ~ ComparisonOf(1).has_changes
    /\ all_changes = <<>>

(***************************************************************************)
(* Under Spec: the call with its arguments swapped.                        *)
(***************************************************************************)
\* compare(new_text, old_text), for the lists that do not depend on the
\* order of iteration of the prerequisites
Swapped == Compare(new_text, old_text, <<>>)

\* C29: compare(A, B).added equals compare(B, A).removed and
\* compare(A, B).removed equals compare(B, A).added, as lists.
C29_SwapSymmetry ==
    Returned =>
        /\ result[1].added = Swapped.removed
        /\ result[1].removed = Swapped.added

\* two copies added and a line of another key removed
C29_TwoAddedOneRemoved ==
    /\ Returned
    /\ Len(result[1].added) = 2
    /\ Len(result[1].removed) = 1
    /\ Swapped.removed # <<>>

\* C30: every structural warning of a result has severity HIGH, every added
\* and removed entry has severity HIGH or MEDIUM, and max_severity is None,
\* MEDIUM or HIGH.
C30_SeverityRange ==
    Returned =>
        /\ \A i \in 1..Len(result[1].structural_warnings) :
               result[1].structural_warnings[i].severity = "HIGH"
        /\ \A e \in ChangeEntries(result[1]) : e.severity \in {"HIGH", "MEDIUM"}
        /\ result[1].max_severity \in {"None", "MEDIUM", "HIGH"}

\* a result with a warning, a HIGH entry and a MEDIUM entry
C30_WarningAndBothSeverities ==
    /\ Returned
    /\ result[1].structural_warnings # <<>>
    /\ \E e \in ChangeEntries(result[1]) : e.severity = "HIGH"
    /\ \E e \in ChangeEntries(result[1]) : e.severity = "MEDIUM"
====
